---- MODULE Spec2Model ----
(***************************************************************************)
(* A model of the read-only restic repository engine (class Repository)    *)
(* and of the object-store requests it issues.  Every asynchronous call of *)
(* the facade is a task; a task's step runs the code from one await to the *)
(* next, so the interleavings are those of the JavaScript event loop.      *)
(***************************************************************************)
EXTENDS Integers, Sequences, FiniteSets, TLC

\* ------------------------------------------------------------------ bounds
\* Transport failures the object store may inject during one behaviour.
MaxFail == 1
\* Longest path string handed to browsePath in the path-walk specification.
MaxPathLen == 4

\* The concurrent asynchronous calls.
Tasks == {"t1", "t2"}

Null == "null"

Range(s) == {s[k] : k \in DOMAIN s}

\* -------------------------------------------------------------- identifiers
\* An ID is 32 bytes; the model numbers the IDs and keeps their lowercase
\* hex rendering in HexIds.  "D2" is the uppercase spelling of "d2".
HexIds == <<"tr", "ta", "tb", "d1", "d2", "d3", "d4", "p0", "p1", "p2", "p3",
            "d5", "d6">>

idToHex(id) == HexIds[id]

idFromHex(hex) ==
  IF hex = "D2" THEN CHOOSE n \in DOMAIN HexIds : HexIds[n] = "d2"
  ELSE CHOOSE n \in DOMAIN HexIds : HexIds[n] = hex

\* ------------------------------------------------------------------- trees
Chars == {"/", ".", "a", "f"}

TreeR == [nodes |-> <<
  [name |-> <<"a">>, type |-> "dir", subtree |-> "ta"],
  [name |-> <<"f">>, type |-> "file", size |-> 5, content |-> <<"d1", "D2", "d1">>],
  [name |-> <<"e">>, type |-> "file", content |-> <<>>],
  [name |-> <<"l">>, type |-> "symlink"],
  [name |-> <<"g">>, type |-> "file", content |-> <<"d1", "d3", "d2">>],
  [name |-> <<"b">>, type |-> "dir", subtree |-> ""],
  [name |-> <<"f", "f">>, type |-> "dir"],
  [name |-> <<".", ".">>, type |-> "dir", subtree |-> "tb"] >>]

TreeA == [nodes |-> <<
  [name |-> <<"f">>, type |-> "file", content |-> <<"d2">>],
  [name |-> <<"a">>, type |-> "dir", subtree |-> "tb"] >>]

TreeB == [nodes |-> <<
  [name |-> <<"f">>, type |-> "file", content |-> <<"d4", "d1">>],
  [name |-> <<"t">>, type |-> "file", content |-> <<"d1", "ta">>],
  [name |-> <<"s">>, type |-> "file", size |-> 3, content |-> <<"d1">>],
  [name |-> <<"w">>, type |-> "file", content |-> <<"d5">>],
  [name |-> <<"z">>, type |-> "file", content |-> <<"d6">>] >>]

\* The plaintext of every blob (content-addressed: a function of the ID).
\* A tree blob is JSON text: 123 is '{', the rest stands for the document.
Plain(hex) ==
  CASE hex = "tr" -> <<123, 1>>
    [] hex = "ta" -> <<123, 2>>
    [] hex = "tb" -> <<123, 3>>
    [] hex = "d1" -> <<7, 8>>
    [] hex = "d2" -> <<9>>
    [] hex = "d3" -> <<5, 5>>
    [] hex = "d4" -> <<>>
    [] hex = "d5" -> <<6>>
    [] hex = "d6" -> <<4, 4, 4>>
    [] OTHER -> <<0>>

\* zstd: a frame starts with a magic byte; decompress rejects anything else.
ZstdMagic == <<40>>
compress(data) == ZstdMagic \o data
decompress(data) ==
  IF Len(data) > 0 /\ <<data[1]>> = ZstdMagic
  THEN [ok |-> TRUE, data |-> Tail(data)]
  ELSE [ok |-> FALSE]

\* ------------------------------------------------------------------- store
\* The key files under keys/: `json` is whether the object parses as JSON,
\* `password` the password whose derived key authenticates the payload,
\* `master` the master key the payload holds.  "kf" is the key file of
\* another repository.
KeyNames == {"k1", "k2", "kx", "kj", "kf"}
KeyFile(name) ==
  CASE name = "k1" -> [json |-> TRUE, kdf |-> "scrypt", password |-> "pw1",
                       master |-> "mk"]
    [] name = "k2" -> [json |-> TRUE, kdf |-> "scrypt", password |-> "pw2",
                       master |-> "mk"]
    [] name = "kx" -> [json |-> TRUE, kdf |-> "argon2", password |-> "pw1",
                       master |-> "mk"]
    [] name = "kj" -> [json |-> FALSE]
    [] name = "kf" -> [json |-> TRUE, kdf |-> "scrypt", password |-> "pw1",
                       master |-> "mk2"]

Passwords == {"pw1", "pw2", "wrong"}

\* The object `config`: the master key its envelope authenticates under
\* and its plaintext (raw JSON, or byte 2 and a zstd frame).
ConfigObjects == {
  [key |-> "mk", plaintext |-> <<123, 10>>],
  [key |-> "mk", plaintext |-> <<123, 11>>],
  [key |-> "mk", plaintext |-> <<123, 12>>],
  [key |-> "mk", plaintext |-> <<2>> \o compress(<<123, 12>>)],
  [key |-> "mk", plaintext |-> <<123, 13>>],
  [key |-> "mk", plaintext |-> <<123, 15>>],
  [key |-> "mk", plaintext |-> <<123, 19>>],
  [key |-> "none", plaintext |-> <<>>] }

\* Snapshots (already decoded by listSnapshots): id and root tree.
Snapshots == { [id |-> "s1", tree |-> "tr"], [id |-> "s2", tree |-> "ta"] }

\* The objects under snapshots/: the master key the envelope authenticates
\* under and its plaintext.  A timestamp is <<milliseconds, the digits below
\* the millisecond>>.  "s1" and "s3" carry the same timestamp, "s4" is later
\* than both by less than a millisecond, the JSON of "s2" has an id field of
\* its own, "sz" is zstd-compressed, "sx" does not authenticate, "sj" is not
\* JSON.
SnapshotNames == {"s1", "s2", "s3", "s4", "sz", "sx", "sj"}
SnapshotFile(name) ==
  CASE name = "s1" -> [key |-> "mk", plaintext |-> <<123, 21>>]
    [] name = "s2" -> [key |-> "mk", plaintext |-> <<123, 22>>]
    [] name = "s3" -> [key |-> "mk", plaintext |-> <<123, 23>>]
    [] name = "s4" -> [key |-> "mk", plaintext |-> <<123, 24>>]
    [] name = "sz" -> [key |-> "mk", plaintext |-> <<2>> \o compress(<<123, 25>>)]
    [] name = "sx" -> [key |-> "none", plaintext |-> <<>>]
    [] name = "sj" -> [key |-> "mk", plaintext |-> <<7>>]

IndexIds == {"ia", "ib", "ic"}

\* Further index objects a store may hold: "ix" is corrupt, "iw" lists the
\* blob d5 at the location of another blob (d1 in pack p3) and the
\* compressed blob d6 (3 bytes) with an uncompressed length of 5.
IndexNames == IndexIds \cup {"ix", "iw"}

\* The decoded JSON of every index object.
IndexFile(name) ==
  CASE name = "ia" ->
        [supersedes |-> <<"ib">>,
         packs |-> <<
           [id |-> "p1", blobs |-> <<
              [id |-> "tr", type |-> "tree", offset |-> 0, length |-> 40],
              [id |-> "ta", type |-> "tree", offset |-> 40, length |-> 41,
               uncompressed_length |-> 60],
              [id |-> "d1", type |-> "data", offset |-> 81, length |-> 34] >>] >>]
    [] name = "ib" ->
        [packs |-> <<
           [id |-> "p0", blobs |-> <<
              [id |-> "d1", type |-> "data", offset |-> 0, length |-> 34],
              [id |-> "d3", type |-> "data", offset |-> 34, length |-> 34] >>] >>]
    [] name = "ic" ->
        [supersedes |-> <<>>,
         packs |-> <<
           [id |-> "p2", blobs |-> <<
              [id |-> "d2", type |-> "data", offset |-> 0, length |-> 33],
              [id |-> "tb", type |-> "tree", offset |-> 33, length |-> 40,
               uncompressed_length |-> 0],
              [id |-> "d4", type |-> "data", offset |-> 73, length |-> 32] >>],
           [id |-> "p3", blobs |-> <<
              [id |-> "d1", type |-> "data", offset |-> 0, length |-> 34],
              [id |-> "d6", type |-> "data", offset |-> 34, length |-> 36,
               uncompressed_length |-> 3] >>] >>]
    [] name = "iw" ->
        [packs |-> <<
           [id |-> "p3", blobs |-> <<
              [id |-> "d5", type |-> "data", offset |-> 0, length |-> 34],
              [id |-> "d6", type |-> "data", offset |-> 34, length |-> 36,
               uncompressed_length |-> 5] >>] >>]

\* What the packs hold: at (pack, offset) an envelope of the given length
\* whose plaintext is the blob's plaintext, zstd-compressed when z is set.
PackLayout == {
  [pack |-> "p1", offset |-> 0,  length |-> 40, blob |-> "tr", z |-> FALSE],
  [pack |-> "p1", offset |-> 40, length |-> 41, blob |-> "ta", z |-> TRUE],
  [pack |-> "p1", offset |-> 81, length |-> 34, blob |-> "d1", z |-> FALSE],
  [pack |-> "p0", offset |-> 0,  length |-> 34, blob |-> "d1", z |-> FALSE],
  [pack |-> "p0", offset |-> 34, length |-> 34, blob |-> "d3", z |-> FALSE],
  [pack |-> "p2", offset |-> 0,  length |-> 33, blob |-> "d2", z |-> FALSE],
  [pack |-> "p2", offset |-> 33, length |-> 40, blob |-> "tb", z |-> FALSE],
  [pack |-> "p2", offset |-> 73, length |-> 32, blob |-> "d4", z |-> FALSE],
  [pack |-> "p3", offset |-> 0,  length |-> 34, blob |-> "d1", z |-> FALSE],
  [pack |-> "p3", offset |-> 34, length |-> 36, blob |-> "d6", z |-> TRUE] }

SyntaxError == [error |-> "SyntaxError"]

\* JSON.parse(new TextDecoder().decode(data)) of a tree blob, a config, a snapshot
\* or an index.
\* A JSON number is kept in tenths (version 1 is 10, version 1.5 is 15), so
\* that a non-integer version can be told from an integer one.
JSONparse(data) ==
  CASE data = <<123, 1>> -> TreeR
    [] data = <<123, 2>> -> TreeA
    [] data = <<123, 3>> -> TreeB
    [] data = <<123, 10>> -> [version |-> 0, id |-> "repo"]
    [] data = <<123, 11>> -> [version |-> 10, id |-> "repo"]
    [] data = <<123, 12>> -> [version |-> 20, id |-> "repo"]
    [] data = <<123, 13>> -> [version |-> 30, id |-> "repo"]
    [] data = <<123, 15>> -> [version |-> 15, id |-> "repo"]
    [] data = <<123, 19>> -> [id |-> "repo"]
    [] data = <<123, 21>> -> [time |-> <<30, 0>>, tree |-> "tr"]
    [] data = <<123, 22>> -> [time |-> <<10, 0>>, tree |-> "ta", id |-> "other"]
    [] data = <<123, 23>> -> [time |-> <<30, 0>>, tree |-> "tr"]
    [] data = <<123, 24>> -> [time |-> <<30, 5>>, tree |-> "ta"]
    [] data = <<123, 25>> -> [time |-> <<5, 0>>, tree |-> "tr"]
    [] data = <<123, 31>> -> IndexFile("ia")
    [] data = <<123, 32>> -> IndexFile("ib")
    [] data = <<123, 33>> -> IndexFile("ic")
    [] data = <<123, 34>> -> IndexFile("iw")
    [] OTHER -> SyntaxError

\* The objects under index/: the master key the envelope authenticates
\* under and its plaintext.  "ic" is zstd-compressed, "ix" does not
\* authenticate.
IndexObject(name) ==
  CASE name = "ia" -> [key |-> "mk", plaintext |-> <<123, 31>>]
    [] name = "ib" -> [key |-> "mk", plaintext |-> <<123, 32>>]
    [] name = "ic" -> [key |-> "mk", plaintext |-> <<2>> \o compress(<<123, 33>>)]
    [] name = "iw" -> [key |-> "mk", plaintext |-> <<123, 34>>]
    [] name = "ix" -> [key |-> "none", plaintext |-> <<>>]

\* The object name in full, character by character (the model's pack names
\* abbreviate them): "p2" and "p3" start with the same two characters.
Spelling(name) ==
  CASE name = "p0" -> <<"0", "0", "p", "0">>
    [] name = "p1" -> <<"0", "1", "p", "1">>
    [] name = "p2" -> <<"a", "2", "p", "2">>
    [] name = "p3" -> <<"a", "2", "p", "3">>
    [] OTHER -> <<name>>

\* S3Config.prefix: none, or a path prefix.
Prefixes == {<<>>, <<"repo">>}

\* ------------------------------------------------------------------- state
VARIABLES
  masterKey,     \* Repository.masterKey: Null or the unlocked key
  config,        \* Repository.config: <<>> (null) or <<the decoded config>>
  blobIndex,     \* Repository.blobIndex: hex blob ID -> PackedBlob
  indexLoaded,   \* Repository.indexLoaded
  indexListing,  \* the order in which the store lists index/
  keyListing,    \* the key files as the store lists keys/
  snapshotListing, \* the order in which the store lists snapshots/
  configObject,  \* the object `config`
  task,          \* per asynchronous call: its position and its locals
  fails,         \* transport failures injected so far
  useConnectionStore, \* the connection store: form, flags, error, repo
  useSnapshotStore,   \* the snapshot store: snapshots, isLoading, error
  useBrowserStore,    \* the browser store: snapshot, path, tree, flags, error
  localStorage        \* the item 'restic-browser-configs': <<>> or <<state>>

vars == <<masterKey, config, blobIndex, indexLoaded, indexListing, keyListing,
          snapshotListing, configObject, task, fails, useConnectionStore,
          useSnapshotStore, useBrowserStore, localStorage>>

\* The application state outside the Repository facade.
ui == <<useConnectionStore, useSnapshotStore, useBrowserStore, localStorage>>

\* The stores as created, with the connection form as filled in, and no
\* saved configuration.
InitStores(form) ==
  /\ useConnectionStore = [form |-> form, isConnecting |-> FALSE,
                           isConnected |-> FALSE, error |-> <<>>, repo |-> <<>>]
  /\ useSnapshotStore = [snapshots |-> <<>>, isLoading |-> FALSE, error |-> <<>>]
  /\ useBrowserStore = [currentSnapshot |-> <<>>, currentPath |-> <<"/">>,
                        currentTree |-> <<>>, selectedNode |-> <<>>,
                        isLoading |-> FALSE, isDownloading |-> FALSE,
                        error |-> <<>>]
  /\ localStorage = <<>>

\* The connection form as created: every field empty.
EmptyForm == [endpoint |-> "", bucket |-> "", accessKeyId |-> "",
              secretAccessKey |-> "", password |-> ""]

store == <<indexListing, keyListing, snapshotListing, configObject>>

facade == <<masterKey, config, blobIndex, indexLoaded>>

\* A call that has not started.  pc names the await the call is suspended at.
\* History kept for the properties: reqs (the requests the call issued),
\* trees (its tree loads), loadedAtStart (indexLoaded when it was called),
\* missed (index files whose first-pass load failed), seen and stable (the
\* index cache as its lookups read it, and whether they all read the same).
NoTask == [op |-> "none", pc |-> "idle", cont |-> "", snapshot |-> <<>>,
           path |-> <<>>, parts |-> <<>>, i |-> 0, currentTree |-> <<>>,
           node |-> <<>>, type |-> "", id |-> 0, indexFiles |-> <<>>, k |-> 0,
           superseded |-> {}, blob |-> <<>>, chunks |-> <<>>, reqs |-> <<>>,
           trees |-> 0, loadedAtStart |-> FALSE, missed |-> {},
           seen |-> <<>>, stable |-> TRUE, password |-> "", configData |-> <<>>,
           keyFiles |-> <<>>, lastError |-> <<>>, masterKey |-> Null,
           configJson |-> <<>>, failed |-> {}, ciphertext |-> <<>>,
           prefix |-> <<>>, range |-> <<>>, pageSize |-> 0, files |-> <<>>,
           continuationToken |-> <<>>,
           snapshotFiles |-> <<>>, snapshots |-> <<>>,
           result |-> <<>>]

Throw(r, err) == [r EXCEPT !.pc = "done", !.result = <<[ok |-> FALSE] @@ err>>]
Return(r, val) == [r EXCEPT !.pc = "done", !.result = <<[ok |-> TRUE] @@ val>>]

Issue(r, req) == [r EXCEPT !.reqs = Append(@, req)]

\* History: the request the call is waiting for failed in transport.
Failed(r) == [r EXCEPT !.failed = @ \cup {Len(r.reqs)}]

\* History: r when the response was served, Failed(r) otherwise.
Served(r, ok) == IF ok THEN r ELSE Failed(r)

\* ------------------------------------------------------------- pure helpers
Min(S) == CHOOSE x \in S : \A y \in S : x <= y

\* path.split('/')
RECURSIVE split(_, _, _)
split(s, cur, acc) ==
  IF s = <<>> THEN Append(acc, cur)
  ELSE IF Head(s) = "/" THEN split(Tail(s), <<>>, Append(acc, cur))
  ELSE split(Tail(s), Append(cur, Head(s)), acc)

\* Mutant: '.' segments are kept.
cleanPartsKeepDot(path) ==
  SelectSeq(split(path, <<>>, <<>>), LAMBDA p : p # <<>>)

\* path.split('/').filter(p => p && p !== '.')
cleanParts(path) ==
  SelectSeq(split(path, <<>>, <<>>), LAMBDA p : p # <<>> /\ p # <<".">>)

\* Mutant: the prefix is joined without separators.
RECURSIVE joinNoSeparator(_)
joinNoSeparator(parts) ==
  IF parts = <<>> THEN <<>> ELSE Head(parts) \o joinNoSeparator(Tail(parts))

\* parts.join('/')
RECURSIVE join(_)
join(parts) ==
  IF parts = <<>> THEN <<>>
  ELSE IF Len(parts) = 1 THEN parts[1]
  ELSE parts[1] \o <<"/">> \o join(Tail(parts))

\* Mutant: a node matches when its name starts like the segment.
findLoose(nodes, name) ==
  LET hits == {j \in DOMAIN nodes : nodes[j].name[1] = name[1]}
  IN IF hits = {} THEN <<>> ELSE <<nodes[Min(hits)]>>

\* currentTree.nodes.find(n => n.name === name): <<>> or <<the first match>>
find(nodes, name) ==
  LET hits == {j \in DOMAIN nodes : nodes[j].name = name}
  IN IF hits = {} THEN <<>> ELSE <<nodes[Min(hits)]>>

\* node.subtree is set and non-empty
hasSubtree(node) == "subtree" \in DOMAIN node /\ node.subtree # ""

\* decrypt(key, data) of the config object
decryptConfig(key, object) ==
  IF object.key = key THEN [ok |-> TRUE, data |-> object.plaintext]
  ELSE [ok |-> FALSE]

\* this.config.version < n (false when the version is undefined)
versionBelow(cfg, n) == "version" \in DOMAIN cfg /\ cfg.version < 10 * n
versionAbove(cfg, n) == "version" \in DOMAIN cfg /\ cfg.version > 10 * n

\* decompressUnpacked(data), reading this.config
decompressUnpacked(data) ==
  IF config = <<>> \/ versionBelow(config[1], 2) THEN [ok |-> TRUE, data |-> data]
  ELSE IF Len(data) = 0 THEN [ok |-> TRUE, data |-> data]
  ELSE IF data[1] = 91 \/ data[1] = 123 THEN [ok |-> TRUE, data |-> data]
  ELSE IF data[1] # 2 THEN [ok |-> FALSE, error |-> "Unsupported encoding version"]
  ELSE decompress(Tail(data)) @@ [error |-> "Decompression"]

\* loadUnpacked(fileType, name) after the GET: decrypt under this.masterKey, then
\* decompressUnpacked; the bytes or the error thrown.
loadUnpacked(object) ==
  LET plaintext == decryptConfig(masterKey, object)
  IN IF ~plaintext.ok THEN [ok |-> FALSE, error |-> "MAC verification failed"]
     ELSE decompressUnpacked(plaintext.data)

\* One PackedBlob of the index cache.
PackedBlob(blob, pack) ==
  [id |-> idFromHex(blob.id), type |-> blob.type, offset |-> blob.offset,
   length |-> blob.length,
   uncompressedLength |-> IF "uncompressed_length" \in DOMAIN blob
                          THEN <<blob.uncompressed_length>> ELSE <<>>,
   packId |-> idFromHex(pack.id)]

\* Mutant: an entry already present keeps its offset.
RECURSIVE setBlobsMixing(_, _, _)
setBlobsMixing(m, blobs, pack) ==
  IF blobs = <<>> THEN m
  ELSE LET id == Head(blobs).id
           new == PackedBlob(Head(blobs), pack)
       IN setBlobsMixing(
            (id :> IF id \in DOMAIN m THEN [new EXCEPT !.offset = m[id].offset]
                   ELSE new) @@ m,
            Tail(blobs), pack)

\* this.blobIndex.set(blob.id, ...) for every blob of one pack, in order
RECURSIVE setBlobs(_, _, _)
setBlobs(m, blobs, pack) ==
  IF blobs = <<>> THEN m
  ELSE setBlobs((Head(blobs).id :> PackedBlob(Head(blobs), pack)) @@ m,
                Tail(blobs), pack)

\* ... for every pack of one index file, in order
RECURSIVE setPacks(_, _)
setPacks(m, packs) ==
  IF packs = <<>> THEN m
  ELSE setPacks(setBlobs(m, Head(packs).blobs, Head(packs)), Tail(packs))

\* The supersedes list of a decoded index (absent: none).
supersedesOf(index) ==
  IF "supersedes" \in DOMAIN index THEN Range(index.supersedes) ELSE {}

\* Mutant: the second pass does not skip superseded indexes.
nextLiveAll(files, superseded, k) ==
  IF k > Len(files) THEN Len(files) + 1 ELSE k

\* Second pass: the next position from k whose index is not superseded,
\* Len + 1 when the loop is over.
nextLive(files, superseded, k) ==
  LET live == {j \in k..Len(files) : files[j] \notin superseded}
  IN IF live = {} THEN Len(files) + 1 ELSE Min(live)

\* The bytes a ranged GET returns and what decrypt makes of them: the
\* plaintext of the envelope stored at exactly that range, an
\* authentication failure for any other range.
decryptRange(packHex, offset, length) ==
  LET hit == {e \in PackLayout :
                e.pack = packHex /\ e.offset = offset /\ e.length = length}
  IN IF hit = {} THEN [ok |-> FALSE]
     ELSE LET e == CHOOSE x \in hit : TRUE
          IN [ok |-> TRUE,
              data |-> IF e.z THEN compress(Plain(e.blob)) ELSE Plain(e.blob)]

\* ------------------------------------------------- synchronous code segments
\* Mutant: loadIndex does not test indexLoaded and builds again.
loadIndexCallAlways(r) ==
  Issue([r EXCEPT !.pc = "listIndex"], [op |-> "list", type |-> "index"])

\* loadIndex() up to its first await: return at once when the index is
\* loaded, else issue the listing of index/.
loadIndexCall(r) ==
  IF indexLoaded THEN [r EXCEPT !.pc = "indexReturn"]
  ELSE Issue([r EXCEPT !.pc = "listIndex"], [op |-> "list", type |-> "index"])

\* Mutant: loadBlob does not test the master key.
loadBlobCallUnchecked(r, type, id, cont) ==
  loadIndexCall([r EXCEPT !.type = type, !.id = id, !.cont = cont])

\* loadBlob(type, id) up to its first await.
loadBlobCall(r, type, id, cont) ==
  IF masterKey = Null THEN Throw(r, [error |-> "Repository not opened"])
  ELSE loadIndexCall([r EXCEPT !.type = type, !.id = id, !.cont = cont])

\* loadTree(id): counts the tree loads of the call.
loadTreeCall(r, hex, cont) ==
  loadBlobCall([r EXCEPT !.trees = @ + 1], "tree", idFromHex(hex), cont)

\* The loop of browsePath from iteration i (1-based) on currentTree, up to
\* the next await, throw or return.
walk(r, i) ==
  LET tree == r.currentTree[1]
      parts == r.parts
  IN IF i > Len(parts) THEN Return(r, [tree |-> tree, node |-> <<>>])
     ELSE LET found == find(tree.nodes, parts[i])
              prefix == join(SubSeq(parts, 1, i))
          IN IF found = <<>>
             THEN Throw(r, [error |-> "Path not found", prefix |-> prefix])
             ELSE LET node == found[1]
                      ri == [r EXCEPT !.i = i, !.node = found]
                  IN IF i = Len(parts)
                     THEN IF node.type = "dir" /\ hasSubtree(node)
                          THEN loadTreeCall(ri, node.subtree, "target")
                          ELSE Return(ri, [tree |-> tree, node |-> found])
                     ELSE IF node.type # "dir" \/ ~hasSubtree(node)
                          THEN Throw(ri, [error |-> "Not a directory",
                                          prefix |-> prefix])
                          ELSE loadTreeCall(ri, node.subtree, "walk")

\* Mutant: the chunks are concatenated last first.
RECURSIVE concatReversed(_)
concatReversed(chunks) ==
  IF chunks = <<>> THEN <<>> ELSE concatReversed(Tail(chunks)) \o Head(chunks)

\* Concatenate all chunks.
RECURSIVE concat(_)
concat(chunks) ==
  IF chunks = <<>> THEN <<>> ELSE Head(chunks) \o concat(Tail(chunks))

\* loadTree's JSON.parse and the continuation of browsePath after it.
treeLoaded(r, data) ==
  LET tree == JSONparse(data)
  IN IF tree = SyntaxError THEN Throw(r, SyntaxError)
     ELSE IF r.cont = "target"
          THEN Return(r, [tree |-> tree, node |-> r.node])
     ELSE IF r.cont = "root"
          THEN walk([r EXCEPT !.currentTree = <<tree>>,
                              !.parts = cleanParts(r.path)], 1)
     ELSE walk([r EXCEPT !.currentTree = <<tree>>], r.i + 1)

\* The continuation of downloadFile after loadBlob returned chunk i.
chunkLoaded(r, data) ==
  LET content == r.node[1].content
      rc == [r EXCEPT !.chunks = Append(@, data)]
  IN IF r.i < Len(content)
     THEN loadBlobCall([rc EXCEPT !.i = r.i + 1], "data",
                       idFromHex(content[r.i + 1]), "chunk")
     ELSE Return(rc, [data |-> concat(rc.chunks)])

\* What the caller of loadBlob does with the returned bytes.
blobLoaded(r, data) ==
  IF r.cont = "chunk" THEN chunkLoaded(r, data) ELSE treeLoaded(r, data)

\* loadIndex: the first pass from position k, up to the next await.
firstPassFrom(r, k) ==
  IF k <= Len(r.indexFiles)
  THEN Issue([r EXCEPT !.pc = "firstPass", !.k = k],
             [op |-> "load", type |-> "index", name |-> r.indexFiles[k]])
  ELSE LET j == nextLive(r.indexFiles, r.superseded, 1)
       IN IF j <= Len(r.indexFiles)
          THEN Issue([r EXCEPT !.pc = "secondPass", !.k = j],
                     [op |-> "load", type |-> "index", name |-> r.indexFiles[j]])
          ELSE [r EXCEPT !.pc = "indexReturn", !.k = j]

\* loadIndex: the second pass from position k, up to the next await or to
\* the end of loadIndex.
secondPassFrom(r, k) ==
  LET j == nextLive(r.indexFiles, r.superseded, k)
  IN IF j <= Len(r.indexFiles)
     THEN Issue([r EXCEPT !.pc = "secondPass", !.k = j],
                [op |-> "load", type |-> "index", name |-> r.indexFiles[j]])
     ELSE [r EXCEPT !.pc = "indexReturn", !.k = j]

\* ------------------------------------------------------------ object keys
\* getSubdir(fileType)
getSubdir(fileType) == IF fileType = "config" THEN <<>> ELSE <<fileType>>

\* name.substring(from, to)
substring(name, from, to) ==
  SubSeq(name, from + 1, IF to < Len(name) THEN to ELSE Len(name))

\* Mutant: pack files are not placed in the two-character subdirectory.
getFilePathFlat(fileType, name) ==
  IF fileType = "config" THEN << <<"config">> >>
  ELSE <<getSubdir(fileType), Spelling(name)>>

\* getFilePath(fileType, name): the components of the object key.
getFilePath(fileType, name) ==
  IF fileType = "config" THEN << <<"config">> >>
  ELSE IF fileType = "data"
       THEN <<getSubdir(fileType), substring(Spelling(name), 0, 2),
              Spelling(name)>>
  ELSE <<getSubdir(fileType), Spelling(name)>>

\* getUrl(path): the path under the configured prefix.
getUrl(prefix, path) == IF prefix # <<>> THEN <<prefix>> \o path ELSE path

\* The HTTP request the backend sends for a request of the facade: fetch
\* without a method is a GET; list is a GET of the bucket with the prefix
\* `prefix/subdir/` as a query parameter, loadPartial a GET with a Range.
fetch(prefix, req) ==
  IF req.op = "list"
  THEN [method |-> "GET", listing |-> TRUE, range |-> FALSE,
        key |-> getUrl(prefix, <<getSubdir(req.type)>>)]
  ELSE [method |-> "GET", listing |-> FALSE, range |-> req.op = "loadPartial",
        key |-> getUrl(prefix, getFilePath(req.type, req.name))]

\* Mutant: the range ends one byte after the blob.
rangeOfExclusive(offset, length) == <<offset, offset + length>>

\* loadPartial's Range header, bytes=<offset>-<end>: first and last byte.
rangeOf(offset, length) == <<offset, offset + length - 1>>

\* The ranged GET loadPartial sends: the URL of the file and the Range.
loadPartial(prefix, req) ==
  [key |-> getUrl(prefix, getFilePath(req.type, req.name)),
   range |-> rangeOf(req.offset, req.length)]

TransportError == [error |-> "Transport"]

\* An object-store response: ok, or a transport failure while the failure
\* budget lasts.
Response(ok) ==
  /\ ok \/ fails < MaxFail
  /\ fails' = IF ok THEN fails ELSE fails + 1

\* ------------------------------------------------------------------ actions
\* browsePath(snapshot, path) is called: runs to the first await.
browsePath(t, snapshot, path) ==
  /\ task[t].pc = "idle"
  /\ task' = [task EXCEPT ![t] =
       loadTreeCall([NoTask EXCEPT !.op = "browsePath", !.snapshot = <<snapshot>>,
                                   !.path = path, !.loadedAtStart = indexLoaded],
                    snapshot.tree, "root")]
  /\ UNCHANGED <<facade, store, ui, fails>>

\* downloadFile(node) is called: runs to the first await (or returns).
downloadFile(t, node) ==
  /\ task[t].pc = "idle"
  /\ LET r == [NoTask EXCEPT !.op = "downloadFile", !.node = <<node>>,
                             !.loadedAtStart = indexLoaded]
     IN task' = [task EXCEPT ![t] =
          IF node.type # "file" THEN Throw(r, [error |-> "Not a file"])
          ELSE IF "content" \notin DOMAIN node \/ Len(node.content) = 0
               THEN Return(r, [data |-> <<>>])
          ELSE loadBlobCall([r EXCEPT !.i = 1], "data",
                            idFromHex(node.content[1]), "chunk")]
  /\ UNCHANGED <<facade, store, ui, fails>>

\* Mutant: the index is marked loaded as soon as index/ is listed.
loadIndexListedEarlyFlag(t) ==
  /\ task[t].pc = "listIndex"
  /\ \E ok \in BOOLEAN :
       /\ Response(ok)
       /\ LET r == task[t]
              next == IF ok
                      THEN firstPassFrom([r EXCEPT !.indexFiles = indexListing,
                                                   !.superseded = {}], 1)
                      ELSE Throw(Failed(r), TransportError)
          IN /\ task' = [task EXCEPT ![t] = next]
             /\ indexLoaded' = (indexLoaded \/ ok)
  /\ UNCHANGED <<masterKey, config, blobIndex, store, ui>>

\* loadIndex: the listing of index/ completed.
loadIndexListed(t) ==
  /\ task[t].pc = "listIndex"
  /\ \E ok \in BOOLEAN :
       /\ Response(ok)
       /\ LET r == task[t]
              next == IF ok
                      THEN firstPassFrom([r EXCEPT !.indexFiles = indexListing,
                                                   !.superseded = {}], 1)
                      ELSE Throw(Failed(r), TransportError)
          IN /\ task' = [task EXCEPT ![t] = next]
             /\ indexLoaded' = (indexLoaded \/ next.pc = "indexReturn")
  /\ UNCHANGED <<masterKey, config, blobIndex, store, ui>>

\* JSON.parse of what loadUnpacked returned for an index object: the
\* decoded index, or SyntaxError for whatever was thrown.
decodeIndex(ok, indexId) ==
  LET data == loadUnpacked(IndexObject(indexId))
  IN IF ok /\ data.ok THEN JSONparse(data.data) ELSE SyntaxError

\* loadIndex, first pass: loadUnpacked of indexFiles[k] completed; a failure
\* is caught and logged.
loadIndexFirstPass(t) ==
  /\ task[t].pc = "firstPass"
  /\ \E ok \in BOOLEAN :
       /\ Response(ok)
       /\ LET r == Served(task[t], ok)
              index == decodeIndex(ok, r.indexFiles[r.k])
              r1 == IF index # SyntaxError
                    THEN [r EXCEPT !.superseded = @ \cup supersedesOf(index)]
                    ELSE [r EXCEPT !.missed = @ \cup {r.indexFiles[r.k]}]
              next == firstPassFrom(r1, r.k + 1)
          IN /\ task' = [task EXCEPT ![t] = next]
             /\ indexLoaded' = (indexLoaded \/ next.pc = "indexReturn")
  /\ UNCHANGED <<masterKey, config, blobIndex, store, ui>>

\* Mutant: an index that fails in the second pass aborts the build.
loadIndexSecondPassAborting(t) ==
  /\ task[t].pc = "secondPass"
  /\ \E ok \in BOOLEAN :
       /\ Response(ok)
       /\ LET r == Served(task[t], ok)
              index == decodeIndex(ok, r.indexFiles[r.k])
              next == IF index # SyntaxError THEN secondPassFrom(r, r.k + 1)
                      ELSE Throw(r, SyntaxError)
          IN /\ blobIndex' = IF index # SyntaxError
                             THEN setPacks(blobIndex, index.packs)
                             ELSE blobIndex
             /\ task' = [task EXCEPT ![t] = next]
             /\ indexLoaded' = (indexLoaded \/ next.pc = "indexReturn")
  /\ UNCHANGED <<masterKey, config, store, ui>>

\* loadIndex, second pass: loadUnpacked of the non-superseded indexFiles[k]
\* completed; its blobs are set in the index cache.
loadIndexSecondPass(t) ==
  /\ task[t].pc = "secondPass"
  /\ \E ok \in BOOLEAN :
       /\ Response(ok)
       /\ LET r == Served(task[t], ok)
              index == decodeIndex(ok, r.indexFiles[r.k])
              next == secondPassFrom(r, r.k + 1)
          IN /\ blobIndex' = IF index # SyntaxError
                             THEN setPacks(blobIndex, index.packs)
                             ELSE blobIndex
             /\ task' = [task EXCEPT ![t] = next]
             /\ indexLoaded' = (indexLoaded \/ next.pc = "indexReturn")
  /\ UNCHANGED <<masterKey, config, store, ui>>

\* Mutant: the recorded type of the entry is not compared with the
\* expected type.
loadBlobLookupUntyped(t) ==
  /\ task[t].pc = "indexReturn"
  /\ LET r0 == task[t]
         r == [r0 EXCEPT !.seen = <<blobIndex>>,
                         !.stable = @ /\ r0.seen \in {<<>>, <<blobIndex>>}]
         idHex == idToHex(r.id)
     IN task' = [task EXCEPT ![t] =
          IF idHex \notin DOMAIN blobIndex
          THEN Throw(r, [error |-> "Blob not found", id |-> idHex])
          ELSE LET blob == blobIndex[idHex]
               IN Issue([r EXCEPT !.pc = "loadPartial", !.blob = <<blob>>],
                        [op |-> "loadPartial", type |-> "data",
                         name |-> idToHex(blob.packId),
                         offset |-> blob.offset, length |-> blob.length])]
  /\ UNCHANGED <<facade, store, ui, fails>>

\* loadBlob after `await this.loadIndex()`: the lookup in the index cache
\* and the ranged GET of the blob.
loadBlobLookup(t) ==
  /\ task[t].pc = "indexReturn"
  /\ LET r0 == task[t]
         r == [r0 EXCEPT !.seen = <<blobIndex>>,
                         !.stable = @ /\ r0.seen \in {<<>>, <<blobIndex>>}]
         idHex == idToHex(r.id)
     IN task' = [task EXCEPT ![t] =
          IF idHex \notin DOMAIN blobIndex
          THEN Throw(r, [error |-> "Blob not found", id |-> idHex])
          ELSE LET blob == blobIndex[idHex]
               IN IF blob.type # r.type
                  THEN Throw(r, [error |-> "Blob type mismatch", id |-> idHex])
                  ELSE Issue([r EXCEPT !.pc = "loadPartial", !.blob = <<blob>>],
                             [op |-> "loadPartial", type |-> "data",
                              name |-> idToHex(blob.packId),
                              offset |-> blob.offset, length |-> blob.length])]
  /\ UNCHANGED <<facade, store, ui, fails>>

\* Mutant: a blob that fails to load ends the read with the bytes so far.
loadBlobFetchedPartial(t) ==
  /\ task[t].pc = "loadPartial"
  /\ \E ok \in BOOLEAN :
       /\ Response(ok)
       /\ LET r == task[t]
              blob == r.blob[1]
              plaintext == decryptRange(idToHex(blob.packId), blob.offset,
                                        blob.length)
              unpacked == decompress(plaintext.data)
          IN task' = [task EXCEPT ![t] =
               IF ~ok THEN IF r.cont = "chunk"
                           THEN Return(Failed(r), [data |-> concat(r.chunks)])
                           ELSE Throw(Failed(r), TransportError)
               ELSE IF ~plaintext.ok
                    THEN Throw(r, [error |-> "MAC verification failed"])
               ELSE IF blob.uncompressedLength # <<>>
                       /\ blob.uncompressedLength[1] > 0
                    THEN IF unpacked.ok THEN blobLoaded(r, unpacked.data)
                         ELSE Throw(r, [error |-> "Decompression"])
               ELSE blobLoaded(r, plaintext.data)]
  /\ UNCHANGED <<facade, store, ui>>

\* Mutant: a ranged GET that fails is sent again.
loadBlobFetchedRetry(t) ==
  /\ task[t].pc = "loadPartial"
  /\ \E ok \in BOOLEAN :
       /\ Response(ok)
       /\ LET r == task[t]
              blob == r.blob[1]
              plaintext == decryptRange(idToHex(blob.packId), blob.offset,
                                        blob.length)
              unpacked == decompress(plaintext.data)
          IN task' = [task EXCEPT ![t] =
               IF ~ok THEN Issue(Failed(r), r.reqs[Len(r.reqs)])
               ELSE IF ~plaintext.ok
                    THEN Throw(r, [error |-> "MAC verification failed"])
               ELSE IF blob.uncompressedLength # <<>>
                       /\ blob.uncompressedLength[1] > 0
                    THEN IF unpacked.ok THEN blobLoaded(r, unpacked.data)
                         ELSE Throw(r, [error |-> "Decompression"])
               ELSE blobLoaded(r, plaintext.data)]
  /\ UNCHANGED <<facade, store, ui>>

\* loadBlob: the ranged GET completed; decrypt, decompress if needed, and
\* return to the caller, which runs to its next await.
loadBlobFetched(t) ==
  /\ task[t].pc = "loadPartial"
  /\ \E ok \in BOOLEAN :
       /\ Response(ok)
       /\ LET r == task[t]
              blob == r.blob[1]
              plaintext == decryptRange(idToHex(blob.packId), blob.offset,
                                        blob.length)
              unpacked == decompress(plaintext.data)
          IN task' = [task EXCEPT ![t] =
               IF ~ok THEN Throw(Failed(r), TransportError)
               ELSE IF ~plaintext.ok
                    THEN Throw(r, [error |-> "MAC verification failed"])
               ELSE IF blob.uncompressedLength # <<>>
                       /\ blob.uncompressedLength[1] > 0
                    THEN IF unpacked.ok THEN blobLoaded(r, unpacked.data)
                         ELSE Throw(r, [error |-> "Decompression"])
               ELSE blobLoaded(r, plaintext.data)]
  /\ UNCHANGED <<facade, store, ui>>


\* ------------------------------------------------------------------- open()
\* Mutant: the payload of a key file is not authenticated.
openKeyFileNoMac(name, password) ==
  LET keyFile == KeyFile(name)
  IN IF ~keyFile.json THEN [ok |-> FALSE, error |-> "SyntaxError"]
     ELSE IF keyFile.kdf # "scrypt" THEN [ok |-> FALSE, error |-> "Unsupported KDF"]
     ELSE [ok |-> TRUE, masterKey |-> keyFile.master]

\* One iteration of the key loop: load, JSON.parse and openKeyFile of a key
\* file under the password; the master key or the error caught.
openKeyFile(name, password) ==
  LET keyFile == KeyFile(name)
  IN IF ~keyFile.json THEN [ok |-> FALSE, error |-> "SyntaxError"]
     ELSE IF keyFile.kdf # "scrypt" THEN [ok |-> FALSE, error |-> "Unsupported KDF"]
     ELSE IF keyFile.password # password
          THEN [ok |-> FALSE, error |-> "MAC verification failed"]
     ELSE [ok |-> TRUE, masterKey |-> keyFile.master]

\* Mutant: open starts with the listing of keys/.
openListingFirst(t, password) ==
  /\ task[t].pc = "idle"
  /\ task' = [task EXCEPT ![t] =
       Issue([NoTask EXCEPT !.op = "open", !.pc = "openConfig",
                            !.password = password],
             [op |-> "list", type |-> "keys"])]
  /\ UNCHANGED <<facade, store, ui, fails>>

\* open(password) is called: issues the GET of config.
open(t, password) ==
  /\ task[t].pc = "idle"
  /\ task' = [task EXCEPT ![t] =
       Issue([NoTask EXCEPT !.op = "open", !.pc = "openConfig",
                            !.password = password],
             [op |-> "load", type |-> "config", name |-> ""])]
  /\ UNCHANGED <<facade, store, ui, fails>>

\* open: the GET of config completed; list keys/.
openConfigLoaded(t) ==
  /\ task[t].pc = "openConfig"
  /\ \E ok \in BOOLEAN :
       /\ Response(ok)
       /\ task' = [task EXCEPT ![t] =
            IF ~ok THEN Throw(Failed(@), TransportError)
            ELSE Issue([@ EXCEPT !.pc = "openListKeys",
                                 !.configData = <<configObject>>],
                       [op |-> "list", type |-> "keys"])]
  /\ UNCHANGED <<facade, store, ui>>

\* Mutant: an empty listing is not checked; the empty key loop leaves no
\* master key and no last error.
openKeysListedUnchecked(t) ==
  /\ task[t].pc = "openListKeys"
  /\ \E ok \in BOOLEAN :
       /\ Response(ok)
       /\ task' = [task EXCEPT ![t] =
            IF ~ok THEN Throw(Failed(@), TransportError)
            ELSE IF Len(keyListing) = 0
                 THEN Throw(@, [error |-> "Failed to open any key file"])
            ELSE Issue([@ EXCEPT !.pc = "openKey", !.keyFiles = keyListing,
                                 !.k = 1],
                       [op |-> "load", type |-> "keys", name |-> keyListing[1]])]
  /\ UNCHANGED <<facade, store, ui>>

\* open: the listing of keys/ completed; start the key loop.
openKeysListed(t) ==
  /\ task[t].pc = "openListKeys"
  /\ \E ok \in BOOLEAN :
       /\ Response(ok)
       /\ task' = [task EXCEPT ![t] =
            IF ~ok THEN Throw(Failed(@), TransportError)
            ELSE IF Len(keyListing) = 0
                 THEN Throw(@, [error |-> "No key files found in repository"])
            ELSE Issue([@ EXCEPT !.pc = "openKey", !.keyFiles = keyListing,
                                 !.k = 1],
                       [op |-> "load", type |-> "keys", name |-> keyListing[1]])]
  /\ UNCHANGED <<facade, store, ui>>

\* Mutant: the key loop gives up at the first key file that fails.
openKeyTriedGivingUp(t) ==
  /\ task[t].pc = "openKey"
  /\ \E ok \in BOOLEAN :
       /\ Response(ok)
       /\ LET r == Served(task[t], ok)
              tried == IF ok THEN openKeyFile(r.keyFiles[r.k], r.password)
                       ELSE [ok |-> FALSE] @@ TransportError
              lastError == [error |-> tried.error]
          IN IF tried.ok
             THEN /\ masterKey' = tried.masterKey
                  /\ task' = [task EXCEPT ![t] =
                       [r EXCEPT !.pc = "openDecrypt",
                                 !.masterKey = tried.masterKey]]
             ELSE /\ masterKey' = masterKey
                  /\ task' = [task EXCEPT ![t] =
                       Throw([r EXCEPT !.lastError = <<lastError>>], lastError)]
  /\ UNCHANGED <<config, blobIndex, indexLoaded, store, ui>>

\* open: key file k was loaded and tried.  On success the loop breaks,
\* this.masterKey is set and the config is handed to decrypt; on failure the
\* error is kept and the next key file is loaded, or lastError is thrown.
openKeyTried(t) ==
  /\ task[t].pc = "openKey"
  /\ \E ok \in BOOLEAN :
       /\ Response(ok)
       /\ LET r == Served(task[t], ok)
              tried == IF ok THEN openKeyFile(r.keyFiles[r.k], r.password)
                       ELSE [ok |-> FALSE] @@ TransportError
              lastError == [error |-> tried.error]
          IN IF tried.ok
             THEN /\ masterKey' = tried.masterKey
                  /\ task' = [task EXCEPT ![t] =
                       [r EXCEPT !.pc = "openDecrypt",
                                 !.masterKey = tried.masterKey]]
             ELSE /\ masterKey' = masterKey
                  /\ task' = [task EXCEPT ![t] =
                       IF r.k < Len(r.keyFiles)
                       THEN Issue([r EXCEPT !.k = r.k + 1,
                                            !.lastError = <<lastError>>],
                                  [op |-> "load", type |-> "keys",
                                   name |-> r.keyFiles[r.k + 1]])
                       ELSE Throw([r EXCEPT !.lastError = <<lastError>>],
                                  lastError)]
  /\ UNCHANGED <<config, blobIndex, indexLoaded, store, ui>>

\* open: decrypt(masterKey, configData) completed; decompressUnpacked is
\* called and reads this.config.
openDecrypted(t) ==
  /\ task[t].pc = "openDecrypt"
  /\ LET r == task[t]
         configPlaintext == decryptConfig(r.masterKey, r.configData[1])
     IN task' = [task EXCEPT ![t] =
          IF ~configPlaintext.ok
          THEN Throw(r, [error |-> "MAC verification failed"])
          ELSE [r EXCEPT !.pc = "openDecode",
                         !.configJson = <<decompressUnpacked(configPlaintext.data)>>]]
  /\ UNCHANGED <<facade, store, ui, fails>>

\* open: decompressUnpacked completed; JSON.parse, this.config is set and
\* the version is checked.
openDecoded(t) ==
  /\ task[t].pc = "openDecode"
  /\ LET r == task[t]
         configJson == r.configJson[1]
         parsed == JSONparse(configJson.data)
     IN IF ~configJson.ok
        THEN /\ task' = [task EXCEPT ![t] = Throw(r, [error |-> configJson.error])]
             /\ config' = config
        ELSE IF parsed = SyntaxError
        THEN /\ task' = [task EXCEPT ![t] = Throw(r, SyntaxError)]
             /\ config' = config
        ELSE /\ config' = <<parsed>>
             /\ task' = [task EXCEPT ![t] =
                  IF versionBelow(parsed, 1) \/ versionAbove(parsed, 2)
                  THEN Throw(r, [error |-> "Unsupported repository version"])
                  ELSE Return(r, [opened |-> TRUE])]
  /\ UNCHANGED <<masterKey, blobIndex, indexLoaded, store, ui, fails>>

\* isOpen()
isOpen == masterKey # Null

\* --------------------------------------------------------- listSnapshots()
\* new Date(time).getTime(): the timestamp in milliseconds; the digits
\* below the millisecond are dropped.
getTime(time) == time[1]

\* Where Array.prototype.sort (stable) with the comparator
\* getTime(b.time) - getTime(a.time) places x among the already sorted:
\* after every element that is not older than x.
RECURSIVE insertSorted(_, _)
insertSorted(sorted, x) ==
  IF sorted = <<>> THEN <<x>>
  ELSE IF getTime(Head(sorted).time) >= getTime(x.time)
       THEN <<Head(sorted)>> \o insertSorted(Tail(sorted), x)
       ELSE <<x>> \o sorted

\* snapshots.sort((a, b) => new Date(b.time).getTime() - new Date(a.time).getTime())
RECURSIVE sortNewestFirst(_)
sortNewestFirst(snapshots) ==
  IF snapshots = <<>> THEN <<>>
  ELSE insertSorted(sortNewestFirst(SubSeq(snapshots, 1, Len(snapshots) - 1)),
                    snapshots[Len(snapshots)])

\* Mutant: the id field of the snapshot document wins over the object name.
pushSnapshotKeepId(snapshots, snapshot, snapshotId) ==
  Append(snapshots, snapshot @@ [id |-> snapshotId])

\* snapshots.push({ ...snapshot, id: snapshotId })
pushSnapshot(snapshots, snapshot, snapshotId) ==
  Append(snapshots, [id |-> snapshotId] @@ snapshot)

\* The loop of listSnapshots from position k, up to the next await or to
\* the return: loadUnpacked throws at once (and is caught) when the
\* repository is not opened, else issues the GET of the snapshot object.
RECURSIVE snapshotsFrom(_, _)
snapshotsFrom(r, k) ==
  IF k > Len(r.snapshotFiles)
  THEN Return(r, [snapshots |-> sortNewestFirst(r.snapshots)])
  ELSE IF masterKey = Null THEN snapshotsFrom(r, k + 1)
  ELSE Issue([r EXCEPT !.pc = "loadSnapshot", !.k = k],
             [op |-> "load", type |-> "snapshots", name |-> r.snapshotFiles[k]])

\* listSnapshots() is called: issues the listing of snapshots/.
listSnapshots(t) ==
  /\ task[t].pc = "idle"
  /\ task' = [task EXCEPT ![t] =
       Issue([NoTask EXCEPT !.op = "listSnapshots", !.pc = "listSnapshots"],
             [op |-> "list", type |-> "snapshots"])]
  /\ UNCHANGED <<facade, store, ui, fails>>

\* listSnapshots: the listing of snapshots/ completed; start the loop.
listSnapshotsListed(t) ==
  /\ task[t].pc = "listSnapshots"
  /\ \E ok \in BOOLEAN :
       /\ Response(ok)
       /\ task' = [task EXCEPT ![t] =
            IF ~ok THEN Throw(@, TransportError)
            ELSE snapshotsFrom([@ EXCEPT !.snapshotFiles = snapshotListing], 1)]
  /\ UNCHANGED <<facade, store, ui>>

\* listSnapshots: the GET of snapshot k completed; it is decrypted,
\* decoded and pushed, or the failure is caught and logged.
listSnapshotLoaded(t) ==
  /\ task[t].pc = "loadSnapshot"
  /\ \E ok \in BOOLEAN :
       /\ Response(ok)
       /\ LET r == task[t]
              snapshotId == r.snapshotFiles[r.k]
              data == loadUnpacked(SnapshotFile(snapshotId))
              snapshot == IF ok /\ data.ok THEN JSONparse(data.data)
                          ELSE SyntaxError
              r1 == IF ~ok THEN [r EXCEPT !.missed = @ \cup {snapshotId}]
                    ELSE IF ~data.ok \/ snapshot = SyntaxError THEN r
                    ELSE [r EXCEPT !.snapshots =
                            pushSnapshot(@, snapshot, snapshotId)]
          IN task' = [task EXCEPT ![t] = snapshotsFrom(r1, r.k + 1)]
  /\ UNCHANGED <<facade, store, ui>>

\* ------------------------------------------------------------- S3Backend
\* The bytes of the object a ranged read is made on.
ObjectBytes == <<11, 12, 13, 14, 15>>

\* The responses of the store to a GET with Range bytes=first-last: 206
\* with the bytes of the range, 200 with the whole object (a server that
\* ignores Range), or an error status.
RangeResponses(range) ==
  { [status |-> 206, ok |-> TRUE,
     body |-> SubSeq(ObjectBytes, range[1] + 1, range[2] + 1)],
    [status |-> 200, ok |-> TRUE, body |-> ObjectBytes],
    [status |-> 404, ok |-> FALSE, body |-> <<>>] }

\* loadPartial(fileType, name, offset, length) is called: the GET with the
\* Range header is sent.
loadPartialCalled(t, prefix, name, offset, length) ==
  /\ task[t].pc = "idle"
  /\ task' = [task EXCEPT ![t] =
       Issue([NoTask EXCEPT !.op = "loadPartial", !.pc = "fetch",
                            !.prefix = prefix,
                            !.range = rangeOf(offset, length)],
             [op |-> "loadPartial", type |-> "data", name |-> name,
              offset |-> offset, length |-> length])]
  /\ UNCHANGED <<facade, store, ui, fails>>

\* loadPartial: the fetch completed; the body of a 2xx or 206 response is
\* returned as it is.
loadPartialResponded(t) ==
  /\ task[t].pc = "fetch" /\ task[t].op = "loadPartial"
  /\ \E ok \in BOOLEAN :
       /\ Response(ok)
       /\ \E response \in RangeResponses(task[t].range) :
            task' = [task EXCEPT ![t] =
              IF ~ok THEN Throw(Failed(@), TransportError)
              ELSE IF ~response.ok /\ response.status # 206
                   THEN Throw(@, [error |-> "Failed to load",
                                  status |-> response.status])
              ELSE Return(@, [data |-> response.body])]
  /\ UNCHANGED <<facade, store, ui>>

\* The names the store holds under a subdirectory, in its listing order.
listingOf(fileType) ==
  CASE fileType = "index" -> indexListing
    [] fileType = "keys" -> keyListing
    [] fileType = "snapshots" -> snapshotListing
    [] fileType = "data" -> <<"p0", "p1", "p2", "p3">>

\* The object keys under prefix/subdir/, as the store lists them.
RECURSIVE keysOf(_, _, _)
keysOf(prefix, fileType, names) ==
  IF names = <<>> THEN <<>>
  ELSE <<getUrl(prefix, getFilePath(fileType, Head(names)))>>
         \o keysOf(prefix, fileType, Tail(names))

\* One page of a ListObjectsV2 response: the keys from position start, at
\* most size of them, IsTruncated and the NextContinuationToken.
Page(keys, size, start) ==
  LET last == IF start + size - 1 < Len(keys) THEN start + size - 1 ELSE Len(keys)
  IN [contents |-> SubSeq(keys, start, last),
      isTruncated |-> last < Len(keys),
      nextContinuationToken |-> <<last + 1>>]

\* The loop over the Contents of a page: parts[parts.length - 1] of every key.
RECURSIVE filenames(_)
filenames(contents) ==
  IF contents = <<>> THEN <<>>
  ELSE LET parts == Head(contents)
       IN <<parts[Len(parts)]>> \o filenames(Tail(contents))

\* list(fileType) is called: the first page is requested without a token.
list(t, prefix, fileType, pageSize) ==
  /\ task[t].pc = "idle"
  /\ task' = [task EXCEPT ![t] =
       Issue([NoTask EXCEPT !.op = "list", !.pc = "fetch", !.type = fileType,
                            !.prefix = prefix, !.pageSize = pageSize],
             [op |-> "list", type |-> fileType, token |-> <<>>])]
  /\ UNCHANGED <<facade, store, ui, fails>>

\* Mutant: the continuation token is ignored; list returns after one page.
listRespondedOnce(t) ==
  /\ task[t].pc = "fetch" /\ task[t].op = "list"
  /\ \E ok \in BOOLEAN :
       /\ Response(ok)
       /\ LET r == task[t]
              start == IF r.continuationToken = <<>> THEN 1
                       ELSE r.continuationToken[1]
              xml == Page(keysOf(r.prefix, r.type, listingOf(r.type)),
                          r.pageSize, start)
              files == r.files \o filenames(xml.contents)
          IN task' = [task EXCEPT ![t] =
               IF ~ok THEN Throw(Failed(r), TransportError)
               ELSE Return([r EXCEPT !.files = files], [files |-> files])]
  /\ UNCHANGED <<facade, store, ui>>

\* list: the fetch of a page completed; its file names are appended and
\* the next page is requested with the continuation token, or the names
\* are returned.
listResponded(t) ==
  /\ task[t].pc = "fetch" /\ task[t].op = "list"
  /\ \E ok \in BOOLEAN :
       /\ Response(ok)
       /\ LET r == task[t]
              start == IF r.continuationToken = <<>> THEN 1
                       ELSE r.continuationToken[1]
              xml == Page(keysOf(r.prefix, r.type, listingOf(r.type)),
                          r.pageSize, start)
              files == r.files \o filenames(xml.contents)
              continuationToken == IF xml.isTruncated
                                   THEN xml.nextContinuationToken ELSE <<>>
          IN task' = [task EXCEPT ![t] =
               IF ~ok THEN Throw(Failed(r), TransportError)
               ELSE IF continuationToken # <<>>
                    THEN Issue([r EXCEPT !.files = files,
                                         !.continuationToken = continuationToken],
                               [op |-> "list", type |-> r.type,
                                token |-> continuationToken])
               ELSE Return([r EXCEPT !.files = files,
                                     !.continuationToken = <<>>],
                           [files |-> files])]
  /\ UNCHANGED <<facade, store, ui>>

\* ---------------------------------------------------------------- decrypt()
\* Bytes are 0..255.  The primitives are small stand-ins that keep the
\* shape of the real ones: AES is a keyed byte-wise permutation, the
\* Poly1305 hash a weighted sum of the message bytes and of its length.
IV_SIZE == 16
MAC_SIZE == 16
EXTENSION == IV_SIZE + MAC_SIZE

\* The three parts of the master key.
CryptoKey == [encryptionKey |-> 5, macKeyK |-> 9, macKeyR |-> 3]

\* data.slice(from, to)
slice(data, from, to) == SubSeq(data, from + 1, to)

\* One AES block operation under key k.
AES(k, block) == [j \in 1..Len(block) |-> (block[j] + k + j) % 256]

\* aesCtr(key, iv, data): the same for encryption and decryption.
aesCtr(key, iv, data) ==
  [j \in 1..Len(data) |-> (AES(key, iv)[((j - 1) % IV_SIZE) + 1] + 256 - data[j]) % 256]

\* The Poly1305 hash of msg under r, before s is added.
RECURSIVE poly1305BigInt(_, _, _)
poly1305BigInt(msg, r, j) ==
  IF j > Len(msg) THEN 1
  ELSE ((msg[j] + 256) * (j + r) + poly1305BigInt(msg, r, j + 1)) % 65536

\* poly1305Mac(message, nonce, macKeyK, macKeyR): s = AES(K, nonce), the
\* tag is the hash plus s, byte by byte.
poly1305Mac(message, nonce, macKeyK, macKeyR) ==
  LET s == AES(macKeyK, nonce)
      h == poly1305BigInt(message, macKeyR, 1)
  IN [j \in 1..MAC_SIZE |->
        ((IF j = 1 THEN h % 256 ELSE IF j = 2 THEN h \div 256 ELSE 0) + s[j]) % 256]

\* poly1305Verify(message, nonce, macKeyK, macKeyR, expectedMac)
poly1305Verify(message, nonce, macKeyK, macKeyR, expectedMac) ==
  LET computed == poly1305Mac(message, nonce, macKeyK, macKeyR)
  IN IF Len(computed) # Len(expectedMac) THEN FALSE
     ELSE \A j \in 1..Len(computed) : computed[j] = expectedMac[j]

\* decrypt(key, ciphertext) is called: the length check, the three slices
\* and the call of poly1305Verify.
decrypt(t, ciphertext) ==
  /\ task[t].pc = "idle"
  /\ LET r == [NoTask EXCEPT !.op = "decrypt", !.ciphertext = ciphertext]
     IN task' = [task EXCEPT ![t] =
          IF Len(ciphertext) < EXTENSION
          THEN Throw(r, [error |-> "Ciphertext too short"])
          ELSE [r EXCEPT !.pc = "poly1305Verify"]]
  /\ UNCHANGED <<facade, store, ui, fails>>

\* decrypt: poly1305Verify completed; throw, or call aesCtr.
decryptVerified(t) ==
  /\ task[t].pc = "poly1305Verify"
  /\ LET ciphertext == task[t].ciphertext
         iv == slice(ciphertext, 0, IV_SIZE)
         mac == slice(ciphertext, Len(ciphertext) - MAC_SIZE, Len(ciphertext))
         encryptedData == slice(ciphertext, IV_SIZE, Len(ciphertext) - MAC_SIZE)
         valid == poly1305Verify(encryptedData, iv, CryptoKey.macKeyK,
                                 CryptoKey.macKeyR, mac)
     IN task' = [task EXCEPT ![t] =
          IF ~valid THEN Throw(@, [error |-> "MAC verification failed"])
          ELSE [@ EXCEPT !.pc = "aesCtr"]]
  /\ UNCHANGED <<facade, store, ui, fails>>

\* decrypt: aesCtr completed; its result is returned.
decryptDecrypted(t) ==
  /\ task[t].pc = "aesCtr"
  /\ LET ciphertext == task[t].ciphertext
         iv == slice(ciphertext, 0, IV_SIZE)
         encryptedData == slice(ciphertext, IV_SIZE, Len(ciphertext) - MAC_SIZE)
     IN task' = [task EXCEPT ![t] =
          Return(@, [data |-> aesCtr(CryptoKey.encryptionKey, iv, encryptedData)])]
  /\ UNCHANGED <<facade, store, ui, fails>>

\* ----------------------------------------------------------- specifications
Permutations3(S) ==
  {s \in [1..Cardinality(S) -> S] : \A a \in S : \E k \in DOMAIN s : s[k] = a}

\* The inputs of the concurrent specification.
PathSet == { <<"/">>, <<"a", "/", "f">>, <<"g", "/", "a">> }
NodeSet == { TreeR.nodes[2], TreeR.nodes[5], TreeR.nodes[1] }
Snapshot1 == CHOOSE s \in Snapshots : s.id = "s1"

\* The facade after a successful open(): master key and config cached, the
\* blob index not yet built.
Init ==
  /\ masterKey = "mk"
  /\ config = <<[version |-> 20, id |-> "repo"]>>
  /\ blobIndex = <<>>
  /\ indexLoaded = FALSE
  /\ indexListing \in Permutations3(IndexIds)
  /\ keyListing = <<"k1">>
  /\ snapshotListing = <<"s1", "s2">>
  /\ configObject = [key |-> "mk", plaintext |-> <<123, 12>>]
  /\ task = [t \in Tasks |-> NoTask]
  /\ fails = 0
  /\ InitStores(EmptyForm)

Next ==
  \E t \in Tasks :
    \/ \E path \in PathSet : browsePath(t, Snapshot1, path)
    \/ \E node \in NodeSet : downloadFile(t, node)
    \/ loadIndexListed(t)
    \/ loadIndexFirstPass(t)
    \/ loadIndexSecondPass(t)
    \/ loadBlobLookup(t)
    \/ loadBlobFetched(t)

Spec == Init /\ [][Next]_vars

\* The sequential caller: every path string up to MaxPathLen and every
\* node of the trees; the second call repeats the first one's walk with a
\* respelled path once the first has completed.
AllPaths == UNION {[1..n -> Chars] : n \in 0..MaxPathLen}
AllNodes == Range(TreeR.nodes) \cup Range(TreeA.nodes) \cup Range(TreeB.nodes)

\* insert the characters ins into path after position k
insertAt(path, k, ins) ==
  SubSeq(path, 1, k) \o ins \o SubSeq(path, k + 1, Len(path))

\* Respellings of a path: a leading or trailing '/', a repeated '/', a '.'
\* segment in front, at the end or after a '/'.
Respellings(path) ==
  {<<"/">> \o path, path \o <<"/">>, <<".", "/">> \o path, path \o <<"/", ".">>}
  \cup {insertAt(path, k, <<"/">>) : k \in {j \in DOMAIN path : path[j] = "/"}}
  \cup {insertAt(path, k, <<".", "/">>) : k \in {j \in DOMAIN path : path[j] = "/"}}

InitWalk ==
  /\ masterKey = "mk"
  /\ config = <<[version |-> 20, id |-> "repo"]>>
  /\ blobIndex = <<>>
  /\ indexLoaded = FALSE
  /\ indexListing = <<"ia", "ib", "ic">>
  /\ keyListing = <<"k1">>
  /\ snapshotListing = <<"s1", "s2">>
  /\ configObject = [key |-> "mk", plaintext |-> <<123, 12>>]
  /\ task = [t \in Tasks |-> NoTask]
  /\ fails = 0
  /\ InitStores(EmptyForm)

NextWalk ==
  \/ /\ task["t1"].pc = "idle" /\ task["t2"].pc = "idle"
     /\ \E snapshot \in Snapshots, path \in AllPaths :
          browsePath("t1", snapshot, path)
  \/ /\ task["t1"].op = "browsePath" /\ task["t1"].pc = "done"
     /\ task["t2"].pc = "idle"
     /\ \E path \in Respellings(task["t1"].path) :
          browsePath("t2", task["t1"].snapshot[1], path)
  \/ /\ task["t1"].pc = "idle" /\ task["t2"].pc = "idle"
     /\ \E node \in AllNodes : downloadFile("t1", node)
  \/ \E t \in Tasks :
       \/ loadIndexListed(t)
       \/ loadIndexFirstPass(t)
       \/ loadIndexSecondPass(t)
       \/ loadBlobLookup(t)
       \/ loadBlobFetched(t)

SpecWalk == InitWalk /\ [][NextWalk]_vars

\* The freshly constructed facade over any store: up to two key files in
\* any listing order, any config object.
KeyListings ==
  {<<>>} \cup {<<a>> : a \in KeyNames}
         \cup {kk \in KeyNames \X KeyNames : kk[1] # kk[2]}

InitOpen ==
  /\ masterKey = Null
  /\ config = <<>>
  /\ blobIndex = <<>>
  /\ indexLoaded = FALSE
  /\ indexListing = <<"ia", "ib", "ic">>
  /\ keyListing \in KeyListings
  /\ snapshotListing = <<"s1", "s2">>
  /\ configObject \in ConfigObjects
  /\ task = [t \in Tasks |-> NoTask]
  /\ fails = 0
  /\ InitStores(EmptyForm)

NextOpen ==
  \E t \in Tasks :
    \/ \E password \in Passwords : open(t, password)
    \/ openConfigLoaded(t)
    \/ openKeysListed(t)
    \/ openKeyTried(t)
    \/ openDecrypted(t)
    \/ openDecoded(t)

SpecOpen == InitOpen /\ [][NextOpen]_vars

\* The opened facade over any listing of up to MaxSnapshots snapshot
\* objects, in any order the store may list them, in a repository of format
\* version 1 or 2.
MaxSnapshots == 3

SnapshotListings ==
  {s \in UNION {[1..n -> SnapshotNames] : n \in 0..MaxSnapshots} :
     \A i, j \in DOMAIN s : i # j => s[i] # s[j]}

InitList ==
  /\ masterKey = "mk"
  /\ config \in {<<[version |-> 10, id |-> "repo"]>>,
                 <<[version |-> 20, id |-> "repo"]>>}
  /\ blobIndex = <<>>
  /\ indexLoaded = FALSE
  /\ indexListing = <<"ia", "ib", "ic">>
  /\ keyListing = <<"k1">>
  /\ snapshotListing \in SnapshotListings
  /\ configObject = [key |-> "mk", plaintext |-> <<123, 12>>]
  /\ task = [t \in Tasks |-> NoTask]
  /\ fails = 0
  /\ InitStores(EmptyForm)

NextList ==
  \E t \in Tasks :
    \/ listSnapshots(t)
    \/ listSnapshotsListed(t)
    \/ listSnapshotLoaded(t)

SpecList == InitList /\ [][NextList]_vars

\* The caller's await of a facade call returns (or throws): the caller is
\* free to make its next call.
resume(t) ==
  /\ task[t].pc = "done"
  /\ task' = [task EXCEPT ![t] = NoTask]
  /\ UNCHANGED <<facade, store, ui, fails>>

\* The facade from its construction on, under any sequence of calls of two
\* callers.
InitFacade ==
  /\ masterKey = Null
  /\ config = <<>>
  /\ blobIndex = <<>>
  /\ indexLoaded = FALSE
  /\ indexListing = <<"ia", "ib", "ic">>
  /\ keyListing = <<"k1">>
  /\ snapshotListing = <<"s1", "sz">>
  /\ configObject = [key |-> "mk", plaintext |-> <<123, 12>>]
  /\ task = [t \in Tasks |-> NoTask]
  /\ fails = 0
  /\ InitStores(EmptyForm)

NextFacade ==
  \E t \in Tasks :
    \/ open(t, "pw1")
    \/ openConfigLoaded(t)
    \/ openKeysListed(t)
    \/ openKeyTried(t)
    \/ openDecrypted(t)
    \/ openDecoded(t)
    \/ listSnapshots(t)
    \/ listSnapshotsListed(t)
    \/ listSnapshotLoaded(t)
    \/ \E path \in PathSet : browsePath(t, Snapshot1, path)
    \/ \E node \in NodeSet : downloadFile(t, node)
    \/ loadIndexListed(t)
    \/ loadIndexFirstPass(t)
    \/ loadIndexSecondPass(t)
    \/ loadBlobLookup(t)
    \/ loadBlobFetched(t)
    \/ resume(t)

SpecFacade == InitFacade /\ [][NextFacade]_vars

\* The opened facade over a store that lists up to MaxIndexes of the index
\* objects, the corrupt and the ill-located ones included, in any order;
\* the second caller calls once the first call has completed.
MaxIndexes == 3

IndexListings ==
  {s \in UNION {[1..n -> IndexNames] : n \in 0..MaxIndexes} :
     \A i, j \in DOMAIN s : i # j => s[i] # s[j]}

IndexNodeSet == { TreeR.nodes[2], TreeR.nodes[5], TreeB.nodes[4],
                  TreeB.nodes[5] }

InitIndex ==
  /\ masterKey = "mk"
  /\ config = <<[version |-> 20, id |-> "repo"]>>
  /\ blobIndex = <<>>
  /\ indexLoaded = FALSE
  /\ indexListing \in IndexListings
  /\ keyListing = <<"k1">>
  /\ snapshotListing = <<"s1", "s2">>
  /\ configObject = [key |-> "mk", plaintext |-> <<123, 12>>]
  /\ task = [t \in Tasks |-> NoTask]
  /\ fails = 0
  /\ InitStores(EmptyForm)

NextIndex ==
  \/ /\ task["t1"].pc = "idle"
     /\ \/ \E path \in PathSet : browsePath("t1", Snapshot1, path)
        \/ \E node \in IndexNodeSet : downloadFile("t1", node)
  \/ /\ task["t1"].pc = "done" /\ task["t2"].pc = "idle"
     /\ \/ \E path \in PathSet : browsePath("t2", Snapshot1, path)
        \/ \E node \in IndexNodeSet : downloadFile("t2", node)
  \/ \E t \in Tasks :
       \/ loadIndexListed(t)
       \/ loadIndexFirstPass(t)
       \/ loadIndexSecondPass(t)
       \/ loadBlobLookup(t)
       \/ loadBlobFetched(t)

SpecIndex == InitIndex /\ [][NextIndex]_vars

\* decrypt() on envelopes IV || ciphertext || MAC of plaintexts of up to
\* MaxData bytes sealed under the master key, on each of them with one byte
\* changed, and on each of their proper prefixes.
MaxData == 2

IVs == { [j \in 1..IV_SIZE |-> 1], [j \in 1..IV_SIZE |-> 16 * j] }
Plaintexts == UNION {[1..n -> {0, 200}] : n \in 0..MaxData}

envelope(iv, data) ==
  LET encryptedData == aesCtr(CryptoKey.encryptionKey, iv, data)
  IN iv \o encryptedData
        \o poly1305Mac(encryptedData, iv, CryptoKey.macKeyK, CryptoKey.macKeyR)

Envelopes == {envelope(iv, data) : iv \in IVs, data \in Plaintexts}

flipped(c, i) == [c EXCEPT ![i] = (@ + 1) % 256]

Ciphertexts ==
  Envelopes
    \cup UNION { {flipped(c, i) : i \in 1..Len(c)} : c \in Envelopes }
    \cup UNION { {SubSeq(c, 1, n) : n \in 0..(Len(c) - 1)} : c \in Envelopes }

InitDecrypt ==
  /\ masterKey = "mk"
  /\ config = <<[version |-> 20, id |-> "repo"]>>
  /\ blobIndex = <<>>
  /\ indexLoaded = FALSE
  /\ indexListing = <<"ia", "ib", "ic">>
  /\ keyListing = <<"k1">>
  /\ snapshotListing = <<"s1", "s2">>
  /\ configObject = [key |-> "mk", plaintext |-> <<123, 12>>]
  /\ task = [t \in Tasks |-> NoTask]
  /\ fails = 0
  /\ InitStores(EmptyForm)

NextDecrypt ==
  \/ \E ciphertext \in Ciphertexts : decrypt("t1", ciphertext)
  \/ \E t \in Tasks :
       \/ decryptVerified(t)
       \/ decryptDecrypted(t)

SpecDecrypt == InitDecrypt /\ [][NextDecrypt]_vars

\* The storage adapter alone: one caller lists a subdirectory that the
\* store serves in pages of up to MaxPageSize keys, another makes a ranged
\* read of any range that lies inside the object.
MaxPageSize == 2

Ranges ==
  {ol \in (0..(Len(ObjectBytes) - 1)) \X (1..Len(ObjectBytes)) :
     ol[1] + ol[2] <= Len(ObjectBytes)}

InitAdapter ==
  /\ masterKey = "mk"
  /\ config = <<[version |-> 20, id |-> "repo"]>>
  /\ blobIndex = <<>>
  /\ indexLoaded = FALSE
  /\ indexListing \in IndexListings
  /\ keyListing = <<"k1">>
  /\ snapshotListing = <<"s1", "s2">>
  /\ configObject = [key |-> "mk", plaintext |-> <<123, 12>>]
  /\ task = [t \in Tasks |-> NoTask]
  /\ fails = 0
  /\ InitStores(EmptyForm)

NextAdapter ==
  \/ \E prefix \in Prefixes, fileType \in {"index", "data"},
        pageSize \in 1..MaxPageSize : list("t1", prefix, fileType, pageSize)
  \/ \E ol \in Ranges : loadPartialCalled("t2", <<>>, "p1", ol[1], ol[2])
  \/ \E t \in Tasks :
       \/ listResponded(t)
       \/ loadPartialResponded(t)

SpecAdapter == InitAdapter /\ [][NextAdapter]_vars

\* ------------------------------------------------------------- the stores
\* The stores call the Repository and wait for the promise it returns.  A
\* call on the store that is waiting is a task with pc "await"; what the
\* promise settles with is computed below from the object store, a transport
\* failure rejecting it while the failure budget lasts.  The facade
\* variables hold the state of the Repository instance opened last.

\* The key loop of open() from key file k: the first key file the password
\* unlocks, or the error of the last one tried.
RECURSIVE openKeys(_, _, _)
openKeys(keyFiles, k, password) ==
  LET tried == openKeyFile(keyFiles[k], password)
  IN IF tried.ok \/ k = Len(keyFiles) THEN tried
     ELSE openKeys(keyFiles, k + 1, password)

\* What open(password) of a new Repository settles with when every request
\* is served: this.config is still null, so decompressUnpacked returns the
\* decrypted config as it is.
openSettled(password) ==
  IF Len(keyListing) = 0
  THEN [ok |-> FALSE, error |-> "No key files found in repository"]
  ELSE LET key == openKeys(keyListing, 1, password)
       IN IF ~key.ok THEN [ok |-> FALSE, error |-> key.error]
          ELSE LET configPlaintext == decryptConfig(key.masterKey, configObject)
                   parsed == JSONparse(configPlaintext.data)
               IN IF ~configPlaintext.ok
                  THEN [ok |-> FALSE, error |-> "MAC verification failed"]
                  ELSE IF parsed = SyntaxError THEN [ok |-> FALSE] @@ SyntaxError
                  ELSE IF versionBelow(parsed, 1) \/ versionAbove(parsed, 2)
                  THEN [ok |-> FALSE, error |-> "Unsupported repository version"]
                  ELSE [ok |-> TRUE, masterKey |-> key.masterKey,
                        config |-> parsed]

\* The first pass of loadIndex over the listing: the supersedes lists of
\* the index files that decode.
supersededIn(files) ==
  UNION {supersedesOf(decodeIndex(TRUE, f)) :
           f \in {g \in Range(files) : decodeIndex(TRUE, g) # SyntaxError}}

\* The second pass of loadIndex from position k of the listing.
RECURSIVE secondPass(_, _, _, _)
secondPass(m, files, superseded, k) ==
  LET j == nextLive(files, superseded, k)
  IN IF j > Len(files) THEN m
     ELSE LET index == decodeIndex(TRUE, files[j])
          IN secondPass(IF index # SyntaxError THEN setPacks(m, index.packs)
                        ELSE m,
                        files, superseded, j + 1)

\* The index cache after `await this.loadIndex()` when every request is
\* served: the cache as it is when already loaded, else as built.
loadIndexSettled ==
  IF indexLoaded THEN blobIndex
  ELSE secondPass(blobIndex, indexListing, supersededIn(indexListing), 1)

\* What loadBlob(type, id) settles with when every request is served,
\* `index` being the index cache after `await this.loadIndex()`.
loadBlobSettled(index, type, id) ==
  LET idHex == idToHex(id)
  IN IF masterKey = Null THEN [ok |-> FALSE, error |-> "Repository not opened"]
     ELSE IF idHex \notin DOMAIN index
     THEN [ok |-> FALSE, error |-> "Blob not found", id |-> idHex]
     ELSE LET blob == index[idHex]
              plaintext == decryptRange(idToHex(blob.packId), blob.offset,
                                        blob.length)
              unpacked == decompress(plaintext.data)
          IN IF blob.type # type
             THEN [ok |-> FALSE, error |-> "Blob type mismatch", id |-> idHex]
             ELSE IF ~plaintext.ok
             THEN [ok |-> FALSE, error |-> "MAC verification failed"]
             ELSE IF blob.uncompressedLength # <<>>
                     /\ blob.uncompressedLength[1] > 0
             THEN IF unpacked.ok THEN [ok |-> TRUE, data |-> unpacked.data]
                  ELSE [ok |-> FALSE, error |-> "Decompression"]
             ELSE [ok |-> TRUE, data |-> plaintext.data]

\* What loadTree(id) settles with: the tree decoded, or the error thrown.
loadTreeSettled(index, hex) ==
  LET data == loadBlobSettled(index, "tree", idFromHex(hex))
      tree == JSONparse(data.data)
  IN IF ~data.ok THEN data
     ELSE IF tree = SyntaxError THEN [ok |-> FALSE] @@ SyntaxError
     ELSE [ok |-> TRUE, tree |-> tree]

\* The loop of browsePath from iteration i on currentTree, run to its
\* return or throw.
RECURSIVE walkSettled(_, _, _, _)
walkSettled(index, currentTree, parts, i) ==
  IF i > Len(parts) THEN [ok |-> TRUE, tree |-> currentTree, node |-> <<>>]
  ELSE LET found == find(currentTree.nodes, parts[i])
           prefix == join(SubSeq(parts, 1, i))
       IN IF found = <<>>
          THEN [ok |-> FALSE, error |-> "Path not found", prefix |-> prefix]
          ELSE LET node == found[1]
                   subtree == loadTreeSettled(index, node.subtree)
               IN IF i = Len(parts)
                  THEN IF node.type = "dir" /\ hasSubtree(node)
                       THEN IF subtree.ok
                            THEN [ok |-> TRUE, tree |-> subtree.tree,
                                  node |-> found]
                            ELSE subtree
                       ELSE [ok |-> TRUE, tree |-> currentTree, node |-> found]
                  ELSE IF node.type # "dir" \/ ~hasSubtree(node)
                       THEN [ok |-> FALSE, error |-> "Not a directory",
                             prefix |-> prefix]
                       ELSE IF subtree.ok
                            THEN walkSettled(index, subtree.tree, parts, i + 1)
                            ELSE subtree

\* What browsePath(snapshot, path) settles with when every request is
\* served.
browsePathSettled(index, snapshot, path) ==
  LET root == loadTreeSettled(index, snapshot.tree)
  IN IF ~root.ok THEN root
     ELSE walkSettled(index, root.tree, cleanParts(path), 1)

\* The loop of listSnapshots from position k of the listing: a snapshot
\* that fails to load or decode is skipped.
RECURSIVE snapshotsSettled(_, _, _)
snapshotsSettled(snapshots, snapshotFiles, k) ==
  IF k > Len(snapshotFiles) THEN sortNewestFirst(snapshots)
  ELSE LET snapshotId == snapshotFiles[k]
           data == loadUnpacked(SnapshotFile(snapshotId))
           snapshot == IF data.ok THEN JSONparse(data.data) ELSE SyntaxError
       IN snapshotsSettled(IF masterKey = Null \/ snapshot = SyntaxError
                           THEN snapshots
                           ELSE pushSnapshot(snapshots, snapshot, snapshotId),
                           snapshotFiles, k + 1)

\* What listSnapshots() settles with when every request is served.
listSnapshotsSettled ==
  [ok |-> TRUE, snapshots |-> snapshotsSettled(<<>>, snapshotListing, 1)]

\* error.message of what a promise was rejected with.
message(err) == [f \in DOMAIN err \ {"ok"} |-> err[f]]

\* What an awaited promise settles with: `settled`, or the transport error.
Settles(ok, settled) == IF ok THEN settled ELSE [ok |-> FALSE] @@ TransportError

\* A call on a store that waits for a promise of the Repository.
Awaiting(t, op) == task[t].op = op /\ task[t].pc = "await"

\* Mutant: a connect that fails drops the connection that exists.
connectOpenedResetting(t) ==
  /\ Awaiting(t, "connect")
  /\ \E ok \in BOOLEAN :
       /\ Response(ok)
       /\ LET opened == Settles(ok, openSettled(task[t].password))
          IN IF opened.ok
             THEN /\ useConnectionStore' =
                       [useConnectionStore EXCEPT
                          !.isConnecting = FALSE, !.isConnected = TRUE,
                          !.repo = <<[masterKey |-> opened.masterKey,
                                      config |-> opened.config]>>,
                          !.error = <<>>]
                  /\ masterKey' = opened.masterKey
                  /\ config' = <<opened.config>>
                  /\ blobIndex' = <<>>
                  /\ indexLoaded' = FALSE
             ELSE /\ useConnectionStore' =
                       [useConnectionStore EXCEPT
                          !.isConnecting = FALSE, !.isConnected = FALSE,
                          !.repo = <<>>, !.error = <<message(opened)>>]
                  /\ UNCHANGED facade
  /\ task' = [task EXCEPT ![t] = NoTask]
  /\ UNCHANGED <<store, useSnapshotStore, useBrowserStore, localStorage>>

\* useConnectionStore.connect(): a missing field sets the error and returns
\* null; else isConnecting is set, a Repository is made and open(password)
\* is awaited.
connect(t) ==
  /\ task[t].pc = "idle"
  /\ LET state == useConnectionStore.form
     IN IF \/ state.endpoint = "" \/ state.bucket = ""
           \/ state.accessKeyId = "" \/ state.secretAccessKey = ""
           \/ state.password = ""
        THEN /\ useConnectionStore' =
                  [useConnectionStore EXCEPT
                     !.error = <<[error |-> "Please fill in all required fields"]>>]
             /\ task' = task
        ELSE /\ useConnectionStore' =
                  [useConnectionStore EXCEPT !.isConnecting = TRUE,
                                             !.error = <<>>]
             /\ task' = [task EXCEPT ![t] =
                  [NoTask EXCEPT !.op = "connect", !.pc = "await",
                                 !.password = state.password]]
  /\ UNCHANGED <<facade, store, useSnapshotStore, useBrowserStore,
                 localStorage, fails>>

\* connect after `await repo.open(password)`: the Repository is stored and
\* the store is connected, or the error is stored.
connectOpened(t) ==
  /\ Awaiting(t, "connect")
  /\ \E ok \in BOOLEAN :
       /\ Response(ok)
       /\ LET opened == Settles(ok, openSettled(task[t].password))
          IN IF opened.ok
             THEN /\ useConnectionStore' =
                       [useConnectionStore EXCEPT
                          !.isConnecting = FALSE, !.isConnected = TRUE,
                          !.repo = <<[masterKey |-> opened.masterKey,
                                      config |-> opened.config]>>,
                          !.error = <<>>]
                  /\ masterKey' = opened.masterKey
                  /\ config' = <<opened.config>>
                  /\ blobIndex' = <<>>
                  /\ indexLoaded' = FALSE
             ELSE /\ useConnectionStore' =
                       [useConnectionStore EXCEPT
                          !.isConnecting = FALSE, !.error = <<message(opened)>>]
                  /\ UNCHANGED facade
  /\ task' = [task EXCEPT ![t] = NoTask]
  /\ UNCHANGED <<store, useSnapshotStore, useBrowserStore, localStorage>>

\* useConnectionStore.disconnect()
disconnect ==
  /\ useConnectionStore' = [useConnectionStore EXCEPT
                              !.isConnected = FALSE, !.repo = <<>>,
                              !.error = <<>>]
  /\ UNCHANGED <<facade, store, task, fails, useSnapshotStore,
                 useBrowserStore, localStorage>>

\* useSnapshotStore.clear()
clearSnapshots(s) == [s EXCEPT !.snapshots = <<>>, !.error = <<>>]

\* useBrowserStore.clear()
clearBrowser(s) ==
  [s EXCEPT !.currentSnapshot = <<>>, !.currentPath = <<"/">>,
            !.currentTree = <<>>, !.selectedNode = <<>>, !.error = <<>>]

\* Header.handleDisconnect: the button is rendered while isConnected.
handleDisconnect ==
  /\ useConnectionStore.isConnected
  /\ useSnapshotStore' = clearSnapshots(useSnapshotStore)
  /\ useBrowserStore' = clearBrowser(useBrowserStore)
  /\ useConnectionStore' = [useConnectionStore EXCEPT
                              !.isConnected = FALSE, !.repo = <<>>,
                              !.error = <<>>]
  /\ UNCHANGED <<facade, store, task, fails, localStorage>>

\* useSnapshotStore.loadSnapshots(): without a repo the error is set; else
\* isLoading is set and listSnapshots() is awaited.
loadSnapshots(t) ==
  /\ task[t].pc = "idle"
  /\ IF useConnectionStore.repo = <<>>
     THEN /\ useSnapshotStore' =
               [useSnapshotStore EXCEPT
                  !.error = <<[error |-> "Not connected to repository"]>>]
          /\ task' = task
     ELSE /\ useSnapshotStore' = [useSnapshotStore EXCEPT !.isLoading = TRUE,
                                                          !.error = <<>>]
          /\ task' = [task EXCEPT ![t] =
               [NoTask EXCEPT !.op = "loadSnapshots", !.pc = "await"]]
  /\ UNCHANGED <<facade, store, useConnectionStore, useBrowserStore,
                 localStorage, fails>>

\* loadSnapshots after `await repo.listSnapshots()`.
loadSnapshotsListed(t) ==
  /\ Awaiting(t, "loadSnapshots")
  /\ \E ok \in BOOLEAN :
       /\ Response(ok)
       /\ LET listed == Settles(ok, listSnapshotsSettled)
          IN useSnapshotStore' =
               IF listed.ok
               THEN [useSnapshotStore EXCEPT !.snapshots = listed.snapshots,
                                             !.isLoading = FALSE]
               ELSE [useSnapshotStore EXCEPT !.error = <<message(listed)>>,
                                             !.isLoading = FALSE]
  /\ task' = [task EXCEPT ![t] = NoTask]
  /\ UNCHANGED <<facade, store, useConnectionStore, useBrowserStore,
                 localStorage>>

\* useBrowserStore.selectSnapshot(snapshot): returns without a repo; else
\* the store is reset to the root of the snapshot and browsePath is awaited.
selectSnapshot(t, snapshot) ==
  /\ task[t].pc = "idle"
  /\ IF useConnectionStore.repo = <<>>
     THEN UNCHANGED <<useBrowserStore, task>>
     ELSE /\ useBrowserStore' =
               [useBrowserStore EXCEPT
                  !.currentSnapshot = <<snapshot>>, !.currentPath = <<"/">>,
                  !.currentTree = <<>>, !.selectedNode = <<>>,
                  !.isLoading = TRUE, !.error = <<>>]
          /\ task' = [task EXCEPT ![t] =
               [NoTask EXCEPT !.op = "selectSnapshot", !.pc = "await",
                              !.snapshot = <<snapshot>>, !.path = <<"/">>]]
  /\ UNCHANGED <<facade, store, useConnectionStore, useSnapshotStore,
                 localStorage, fails>>

\* The continuation of selectSnapshot and of navigateTo after
\* `await repo.browsePath(...)`: the tree or the error is stored.  The
\* Repository has built its index when the requests were served.
browsed(t) ==
  \E ok \in BOOLEAN, index \in {loadIndexSettled} :
    /\ Response(ok)
    /\ \E result \in {Settles(ok, browsePathSettled(index, task[t].snapshot[1],
                                                     task[t].path))} :
         useBrowserStore' =
           IF result.ok
           THEN [useBrowserStore EXCEPT !.currentTree = <<result.tree>>,
                                        !.isLoading = FALSE]
           ELSE [useBrowserStore EXCEPT !.error = <<message(result)>>,
                                        !.isLoading = FALSE]
    /\ blobIndex' = IF ok /\ masterKey # Null THEN index ELSE blobIndex
    /\ indexLoaded' = (indexLoaded \/ (ok /\ masterKey # Null))
    /\ task' = [task EXCEPT ![t] = NoTask]
    /\ UNCHANGED <<masterKey, config, store, useConnectionStore,
                   useSnapshotStore, localStorage>>

\* selectSnapshot after `await repo.browsePath(snapshot, '/')`.
selectSnapshotBrowsed(t) == Awaiting(t, "selectSnapshot") /\ browsed(t)

\* useBrowserStore.navigateTo(path): returns without a repo or a current
\* snapshot; else the path is stored and browsePath is awaited.
navigateTo(t, path) ==
  /\ task[t].pc = "idle"
  /\ IF useConnectionStore.repo = <<>> \/ useBrowserStore.currentSnapshot = <<>>
     THEN UNCHANGED <<useBrowserStore, task>>
     ELSE /\ useBrowserStore' =
               [useBrowserStore EXCEPT
                  !.currentPath = path, !.selectedNode = <<>>,
                  !.isLoading = TRUE, !.error = <<>>]
          /\ task' = [task EXCEPT ![t] =
               [NoTask EXCEPT !.op = "navigateTo", !.pc = "await",
                              !.snapshot = useBrowserStore.currentSnapshot,
                              !.path = path]]
  /\ UNCHANGED <<facade, store, useConnectionStore, useSnapshotStore,
                 localStorage, fails>>

\* navigateTo after `await repo.browsePath(currentSnapshot, path)`.
navigateToBrowsed(t) == Awaiting(t, "navigateTo") /\ browsed(t)

\* The connection forms: a field is empty or filled in.
Forms ==
  { [endpoint |-> e, bucket |-> b, accessKeyId |-> "id",
     secretAccessKey |-> "secret", password |-> p] :
      e \in {"", "https://s3"}, b \in {"", "bucket"},
      p \in {"", "pw1", "wrong"} }

\* connect and disconnect in any order and interleaving, on any form, over
\* a store with one or two key files.
InitConnection ==
  /\ masterKey = Null
  /\ config = <<>>
  /\ blobIndex = <<>>
  /\ indexLoaded = FALSE
  /\ indexListing = <<"ia", "ib", "ic">>
  /\ keyListing \in {<<"k1">>, <<"k2", "k1">>, <<"kx">>}
  /\ snapshotListing = <<"s1", "s2">>
  /\ configObject \in {[key |-> "mk", plaintext |-> <<123, 12>>],
                       [key |-> "mk", plaintext |-> <<123, 13>>]}
  /\ task = [t \in Tasks |-> NoTask]
  /\ fails = 0
  /\ \E form \in Forms : InitStores(form)

NextConnection ==
  \/ \E t \in Tasks : connect(t) \/ connectOpened(t)
  \/ disconnect

SpecConnection == InitConnection /\ [][NextConnection]_vars

\* The paths the user navigates to.
NavigatedPaths == { <<"/">>, <<"a">>, <<"f">> }

\* The form that connects.
FilledForm == [endpoint |-> "https://s3", bucket |-> "bucket",
               accessKeyId |-> "id", secretAccessKey |-> "secret",
               password |-> "pw1"]

\* The application: the user connects through the form (shown while not
\* connected, its button disabled while connecting), lists the snapshots,
\* selects one of the snapshots listed (the list is shown while it is not
\* loading), navigates, and disconnects, without waiting for the requests
\* under way.
InitStoresSpec ==
  /\ masterKey = Null
  /\ config = <<>>
  /\ blobIndex = <<>>
  /\ indexLoaded = FALSE
  /\ indexListing = <<"ia", "ib", "ic">>
  /\ keyListing = <<"k1">>
  /\ snapshotListing = <<"s1", "s2">>
  /\ configObject = [key |-> "mk", plaintext |-> <<123, 12>>]
  /\ task = [t \in Tasks |-> NoTask]
  /\ fails = 0
  /\ InitStores(FilledForm)

NextStores ==
  \/ /\ ~useConnectionStore.isConnected
     /\ ~useConnectionStore.isConnecting
     /\ connect("t1")
  \/ connectOpened("t1")
  \/ loadSnapshots("t1")
  \/ loadSnapshotsListed("t1")
  \/ \E t \in Tasks :
       \/ /\ ~useSnapshotStore.isLoading
          /\ \E k \in DOMAIN useSnapshotStore.snapshots :
               selectSnapshot(t, useSnapshotStore.snapshots[k])
       \/ selectSnapshotBrowsed(t)
       \/ \E path \in NavigatedPaths : navigateTo(t, path)
       \/ navigateToBrowsed(t)
  \/ handleDisconnect

SpecStores == InitStoresSpec /\ [][NextStores]_vars

\* --------------------------------------------------- saved configurations
\* A JavaScript object is the sequence of its own enumerable properties,
\* <<key, value>> each, in the order of Object.keys: the integer-like keys
\* first, in ascending order, then the other keys in insertion order.

\* The key is an array index ("7"), as Object.keys orders them first.
isIntegerKey(key) == key \in {"7"}

\* Object.keys(object)
ObjectKeys(object) == [k \in DOMAIN object |-> object[k][1]]

\* The own property `key` of the object is created (in the place
\* Object.keys gives it) or given the value.
defineProperty(object, key, value) ==
  LET at == {k \in DOMAIN object : object[k][1] = key}
  IN IF at # {} THEN [object EXCEPT ![Min(at)] = <<key, value>>]
     ELSE IF isIntegerKey(key) THEN <<<<key, value>>>> \o object
     ELSE Append(object, <<key, value>>)

\* object[key] = value.  The key "__proto__" is the accessor inherited from
\* Object.prototype: the assignment sets the prototype of the object and
\* creates no own property.
setProperty(object, key, value) ==
  IF key = "__proto__" THEN object ELSE defineProperty(object, key, value)

\* delete object[key]
deleteProperty(object, key) ==
  SelectSeq(object, LAMBDA p : p[1] # key)

\* The members of an object in JSON text: key, value, key, value, ...
RECURSIVE members(_)
members(object) ==
  IF object = <<>> THEN <<>>
  ELSE <<Head(object)[1], Head(object)[2]>> \o members(Tail(object))

\* JSON.stringify(state) of a ConfigState: the text as a sequence of tokens.
\* A property that is undefined (active) is left out.
JSONstringify(state) ==
  <<"{", "configs", "{">> \o members(state.configs) \o <<"}">>
    \o (IF state.active = <<>> THEN <<>> ELSE <<"active", state.active[1]>>)
    \o <<"}">>

\* The members of the JSON object that starts at token i, up to its "}".
RECURSIVE parseMembers(_, _, _)
parseMembers(text, i, object) ==
  IF text[i] = "}" THEN [object |-> object, next |-> i + 1]
  ELSE parseMembers(text, i + 2, defineProperty(object, text[i], text[i + 1]))

\* JSON.parse(stored) of the text of a ConfigState.
JSONparseState(text) ==
  LET configs == parseMembers(text, 4, <<>>)
  IN [configs |-> configs.object,
      active |-> IF text[configs.next] = "active"
                 THEN <<text[configs.next + 1]>> ELSE <<>>]

\* loadConfigsFromStorage(): the stored state, or { configs: {} }.
loadConfigsFromStorage ==
  IF localStorage = <<>> THEN [configs |-> <<>>, active |-> <<>>]
  ELSE JSONparseState(localStorage[1])

\* saveConfigToStorage(config)
saveConfigToStorage(cfg) ==
  /\ LET existing == loadConfigsFromStorage
         saved == [configs |-> setProperty(existing.configs, cfg.name, cfg),
                   active |-> <<cfg.name>>]
     IN localStorage' = <<JSONstringify(saved)>>
  /\ UNCHANGED <<facade, store, task, fails, useConnectionStore,
                 useSnapshotStore, useBrowserStore>>

\* deleteConfigFromStorage(name)
deleteConfigFromStorage(name) ==
  /\ LET existing == loadConfigsFromStorage
         configs == deleteProperty(existing.configs, name)
         keys == ObjectKeys(configs)
         active == IF existing.active = <<name>>
                   THEN IF keys = <<>> THEN <<>> ELSE <<keys[1]>>
                   ELSE existing.active
     IN localStorage' = <<JSONstringify([configs |-> configs,
                                         active |-> active])>>
  /\ UNCHANGED <<facade, store, task, fails, useConnectionStore,
                 useSnapshotStore, useBrowserStore>>

\* The names a configuration is saved under, and the configurations.
ConfigNames == {"a", "b", "7", "__proto__"}
RepoConfigs ==
  {[name |-> n, endpoint |-> e] : n \in ConfigNames, e \in {"e1", "e2"}}

\* Configurations are saved and deleted in any order, from empty storage.
InitStorage ==
  /\ masterKey = Null
  /\ config = <<>>
  /\ blobIndex = <<>>
  /\ indexLoaded = FALSE
  /\ indexListing = <<"ia", "ib", "ic">>
  /\ keyListing = <<"k1">>
  /\ snapshotListing = <<"s1", "s2">>
  /\ configObject = [key |-> "mk", plaintext |-> <<123, 12>>]
  /\ task = [t \in Tasks |-> NoTask]
  /\ fails = 0
  /\ InitStores(EmptyForm)

NextStorage ==
  \/ \E cfg \in RepoConfigs : saveConfigToStorage(cfg)
  \/ \E name \in ConfigNames : deleteConfigFromStorage(name)

SpecStorage == InitStorage /\ [][NextStorage]_vars

\* =================================================================== claims
Done(t, op) == task[t].pc = "done" /\ task[t].op = op
Result(t) == task[t].result[1]

\* Errors of loading a blob (as opposed to errors of the walk itself).
LoadErrors == {"Transport", "Blob not found", "Blob type mismatch",
               "MAC verification failed", "Decompression", "SyntaxError",
               "Repository not opened"}
LoadFailed(t) == ~Result(t).ok /\ Result(t).error \in LoadErrors

\* Some open() call is between its call and its completion.
OpenInFlight == \E t \in Tasks : task[t].op = "open" /\ task[t].pc # "done"

\* C1: whenever the facade reports open and no open() call is in
\* progress, the master key and a decoded config of version 1 or 2 are
\* cached; so after a failed open() on a fresh facade it is not open.
C1_OpenMeansUnlockedAndConfigured ==
  (isOpen /\ ~OpenInFlight) =>
    /\ masterKey # Null
    /\ config # <<>>
    /\ "version" \in DOMAIN config[1]
    /\ config[1].version \in {10, 20}

\* The password unlocks the key file: it is a JSON key file with KDF scrypt
\* whose payload authenticates under the key derived from the password.
Unlocks(name, password) ==
  /\ KeyFile(name).json
  /\ KeyFile(name).kdf = "scrypt"
  /\ KeyFile(name).password = password

\* No call made so far supplied a password that unlocks a listed key file.
NothingUnlocked ==
  \A t \in Tasks, k \in DOMAIN keyListing :
    task[t].op = "open" => ~Unlocks(keyListing[k], task[t].password)

\* Every listed key file is a scrypt key file that fails authentication
\* under the password.
WrongPassword(password) ==
  /\ keyListing # <<>>
  /\ \A k \in DOMAIN keyListing :
       /\ KeyFile(keyListing[k]).json
       /\ KeyFile(keyListing[k]).kdf = "scrypt"
       /\ KeyFile(keyListing[k]).password # password

ListedIn(name) ==
  UNION { {b.id : b \in Range(pk.blobs)} : pk \in Range(IndexFile(name).packs) }

\* Index files named in the supersedes list of an index file of the set.
SupersededBy(names) == UNION {supersedesOf(IndexFile(n)) : n \in names}

\* Blobs listed by an index file that none of `names` supersedes.
LiveBlobs(names) ==
  UNION {ListedIn(n) : n \in IndexIds \ SupersededBy(names)}

\* Index files whose load failed in the first pass of some build.
Missed == UNION {task[t].missed : t \in Tasks}

Builders == {t \in Tasks : \E k \in DOMAIN task[t].reqs :
                              task[t].reqs[k] = [op |-> "list", type |-> "index"]}

\* C4: the blob index is built exactly once under concurrent first-time
\* lookups: index/ is listed by at most one call.
C4_IndexBuiltOnce == Cardinality(Builders) <= 1

\* C5: no two calls have a ranged GET of the same blob in flight at the
\* same time (the later caller shares the fetch in flight).
C5_OneFetchInFlight ==
  \A t1, t2 \in Tasks :
    (t1 # t2 /\ task[t1].pc = "loadPartial" /\ task[t2].pc = "loadPartial")
      => task[t1].id # task[t2].id

\* plaintext(b1) || ... || plaintext(bk) of a content list
RECURSIVE PlainOf(_)
PlainOf(content) ==
  IF content = <<>> THEN <<>>
  ELSE Plain(idToHex(idFromHex(Head(content)))) \o PlainOf(Tail(content))

ContentOf(node) == IF "content" \in DOMAIN node THEN node.content ELSE <<>>

\* C6: a downloadFile that returns bytes returns the plaintexts of the
\* content blobs concatenated in content order; with empty or absent
\* content it returns 0 bytes and issues no request.
C6_FileReassembly ==
  \A t \in Tasks :
    Done(t, "downloadFile") =>
      LET node == task[t].node[1]
      IN /\ Result(t).ok =>
              /\ node.type = "file"
              /\ Result(t).data = PlainOf(ContentOf(node))
         /\ (node.type = "file" /\ ContentOf(node) = <<>>) =>
              /\ Result(t) = [ok |-> TRUE, data |-> <<>>]
              /\ task[t].reqs = <<>>

C6_Witness ==
  \E t \in Tasks :
    /\ Done(t, "downloadFile")
    /\ ContentOf(task[t].node[1]) = <<"d1", "D2", "d1">>
    /\ Result(t) = [ok |-> TRUE, data |-> <<7, 8, 9, 7, 8>>]

\* The tree a blob ID denotes.
TreeOf(hex) == JSONparse(Plain(hex))

NamedIn(tree, name) == {n \in Range(tree.nodes) : n.name = name}

\* The prefix p1/.../pi an error names.
RECURSIVE NamedPrefix(_, _)
NamedPrefix(parts, i) ==
  IF i = 1 THEN parts[1] ELSE NamedPrefix(parts, i - 1) \o <<"/">> \o parts[i]

\* What the path walk of the segments parts[i..] from `tree` is to give,
\* `loaded` trees having been loaded so far: the node and tree returned, or
\* the error and the prefix it names, and the number of trees loaded.
RECURSIVE Resolve(_, _, _, _)
Resolve(tree, parts, i, loaded) ==
  IF NamedIn(tree, parts[i]) = {}
  THEN [ok |-> FALSE, error |-> "Path not found",
        prefix |-> NamedPrefix(parts, i), trees |-> loaded]
  ELSE LET v == CHOOSE n \in NamedIn(tree, parts[i]) : TRUE
           isDir == v.type = "dir" /\ "subtree" \in DOMAIN v /\ v.subtree # ""
       IN IF i = Len(parts)
          THEN IF isDir
               THEN [ok |-> TRUE, tree |-> TreeOf(v.subtree), node |-> <<v>>,
                     trees |-> loaded + 1]
               ELSE [ok |-> TRUE, tree |-> tree, node |-> <<v>>, trees |-> loaded]
          ELSE IF ~isDir
               THEN [ok |-> FALSE, error |-> "Not a directory",
                     prefix |-> NamedPrefix(parts, i), trees |-> loaded]
               ELSE Resolve(TreeOf(v.subtree), parts, i + 1, loaded + 1)

\* The expected outcome of browsePath(t's snapshot, t's path).
Expected(t) ==
  LET parts == cleanParts(task[t].path)
      root == TreeOf(task[t].snapshot[1].tree)
  IN IF parts = <<>> THEN [ok |-> TRUE, tree |-> root, node |-> <<>>, trees |-> 1]
     ELSE Resolve(root, parts, 1, 1)

\* The result of a call with the number of trees it loaded.
Outcome(t) == Result(t) @@ [trees |-> task[t].trees]

\* C7: for a non-empty path whose every segment resolves, browsePath
\* returns the node matched by the last segment with the tree of its subtree
\* (a dir with a subtree) or the tree containing it, having loaded one tree
\* per directory descended plus the root; it fails only when a tree fails to
\* load.
C7_BrowseResolves ==
  \A t \in Tasks :
    (Done(t, "browsePath") /\ cleanParts(task[t].path) # <<>>) =>
      /\ Expected(t).ok =>
           \/ Outcome(t) = Expected(t)
           \/ LoadFailed(t) /\ task[t].trees <= Expected(t).trees
      /\ Result(t).ok => Outcome(t) = Expected(t)

C7_Witness ==
  \E t \in Tasks :
    /\ Done(t, "browsePath")
    /\ task[t].path = <<"a", "/", "a">>
    /\ task[t].snapshot[1].id = "s1"
    /\ Result(t) = [ok |-> TRUE, tree |-> TreeB, node |-> <<TreeA.nodes[2]>>]
    /\ task[t].trees = 3

\* C8: browsePath fails with PathNotFound naming p1..pi at the first segment
\* that matches no node, and with NotADirectory naming p1..pi when a
\* non-final segment resolves to a node that is not a dir with a non-empty
\* subtree; no tree is loaded after the failing segment.
C8_BrowseErrors ==
  \A t \in Tasks :
    Done(t, "browsePath") =>
      /\ ~Expected(t).ok =>
           \/ Outcome(t) = Expected(t)
           \/ LoadFailed(t) /\ task[t].trees <= Expected(t).trees
      /\ (~Result(t).ok /\ ~LoadFailed(t)) => Outcome(t) = Expected(t)

C8_Witness ==
  \E t \in Tasks :
    /\ Done(t, "browsePath")
    /\ task[t].path = <<"a", "/", ".", ".">>
    /\ task[t].snapshot[1].id = "s1"
    /\ Result(t) = [ok |-> FALSE, error |-> "Path not found",
                    prefix |-> <<"a", "/", ".", ".">>]
    /\ task[t].trees = 2

\* A path with no segment left: only '/' and single '.' between them.
NoSegment(path) ==
  \A k \in DOMAIN path :
    /\ path[k] \in {"/", "."}
    /\ (path[k] = "." /\ k < Len(path)) => path[k + 1] = "/"

\* C9: a call and its repetition with a respelled path (leading, trailing
\* or repeated '/', '.' segments) give the same result, and a path with no
\* segment left gives the snapshot's root tree with no node.
C9_PathCleaning ==
  /\ \A t1, t2 \in Tasks :
       ( /\ Done(t1, "browsePath") /\ Done(t2, "browsePath")
         /\ task[t1].snapshot = task[t2].snapshot
         /\ task[t2].path \in Respellings(task[t1].path)
         /\ ~LoadFailed(t1) /\ ~LoadFailed(t2) )
       => Result(t1) = Result(t2)
  /\ \A t \in Tasks :
       (Done(t, "browsePath") /\ NoSegment(task[t].path) /\ ~LoadFailed(t))
       => Result(t) = [ok |-> TRUE, tree |-> TreeOf(task[t].snapshot[1].tree),
                       node |-> <<>>]

C9_Witness ==
  /\ Done("t1", "browsePath") /\ Done("t2", "browsePath")
  /\ task["t1"].path = <<"a", "/", "f">>
  /\ task["t2"].path = <<"a", "/", ".", "/", "f">>
  /\ Result("t1").ok /\ Result("t2") = Result("t1")

\* The call t takes a step.
Stepped(t) == task'[t] # task[t]

SameCall(t1, t2) ==
  /\ Done(t1, "browsePath") /\ Done(t2, "browsePath")
  /\ task[t1].snapshot = task[t2].snapshot
  /\ task[t1].path = task[t2].path

\* The call read one and the same index cache in all its lookups and met
\* no transport failure.
Undisturbed(t) ==
  /\ task[t].stable
  /\ ~(~Result(t).ok /\ Result(t).error = "Transport")

IdOrder == <<"s1", "s2", "s3", "s4", "sj", "sx", "sz">>
IdRank(id) == CHOOSE k \in DOMAIN IdOrder : IdOrder[k] = id

\* Snapshot a carries a later decoded timestamp than snapshot b.
Newer(a, b) ==
  \/ a.time[1] > b.time[1]
  \/ a.time[1] = b.time[1] /\ a.time[2] > b.time[2]

\* C11: the snapshots listSnapshots returns are ordered by decoded
\* timestamp, newest first, and snapshots of equal timestamp by snapshot ID,
\* whatever order the store lists the snapshot objects in.
C11_SnapshotOrder ==
  \A t \in Tasks :
    (Done(t, "listSnapshots") /\ Result(t).ok) =>
      LET got == Result(t).snapshots
      IN \A i, j \in DOMAIN got :
           i < j => \/ Newer(got[i], got[j])
                    \/ /\ got[i].time = got[j].time
                       /\ IdRank(got[i].id) < IdRank(got[j].id)

\* What a snapshot object decodes to, with its object name as id.
ExpectedSnapshot(name) ==
  CASE name = "s1" -> [id |-> "s1", time |-> <<30, 0>>, tree |-> "tr"]
    [] name = "s2" -> [id |-> "s2", time |-> <<10, 0>>, tree |-> "ta"]
    [] name = "s3" -> [id |-> "s3", time |-> <<30, 0>>, tree |-> "tr"]
    [] name = "s4" -> [id |-> "s4", time |-> <<30, 5>>, tree |-> "ta"]
    [] name = "sz" -> [id |-> "sz", time |-> <<5, 0>>, tree |-> "tr"]

\* The snapshot objects that authenticate, decode and parse in a repository
\* of the cached format version (compressed objects exist from version 2).
Decodable ==
  IF config # <<>> /\ config[1].version = 20
  THEN {"s1", "s2", "s3", "s4", "sz"} ELSE {"s1", "s2", "s3", "s4"}

\* The listing of snapshots/ itself failed.
ListingFailed(t) ==
  /\ Len(task[t].reqs) = 1
  /\ Result(t) = [ok |-> FALSE] @@ TransportError

\* C12: a snapshot object that fails to fetch, authenticate, decode or
\* parse does not abort the listing: once snapshots/ is listed,
\* listSnapshots completes without error and returns exactly the listed
\* snapshots whose object was fetched and decodes, each once, each carrying
\* its object name as id.
C12_BadSnapshotSkipped ==
  \A t \in Tasks :
    Done(t, "listSnapshots") =>
      /\ Result(t).ok \/ ListingFailed(t)
      /\ Result(t).ok =>
           LET got == Result(t).snapshots
               good == (Range(task[t].snapshotFiles) \ task[t].missed)
                         \cap Decodable
           IN /\ Range(got) = {ExpectedSnapshot(n) : n \in good}
              /\ Len(got) = Cardinality(good)

C12_Witness ==
  \E t \in Tasks :
    /\ Done(t, "listSnapshots")
    /\ task[t].snapshotFiles = <<"sx", "s2", "sj">>
    /\ task[t].missed = {}
    /\ Result(t) = [ok |-> TRUE, snapshots |-> <<ExpectedSnapshot("s2")>>]

\* C13: open() succeeds only when the decoded config carries format
\* version 1 or 2; a config that decodes with any other version value, or
\* with none, makes open() fail with the unsupported-version error.
C13_OnlyVersion1Or2 ==
  \A t \in Tasks :
    Done(t, "open") =>
      /\ Result(t).ok =>
           /\ config # <<>>
           /\ "version" \in DOMAIN config[1]
           /\ config[1].version \in {10, 20}
      /\ ( /\ task[t].configJson # <<>>
           /\ task[t].configJson[1].ok
           /\ configObject.plaintext \in
                {<<123, 10>>, <<123, 13>>, <<123, 15>>, <<123, 19>>} )
         => Result(t) = [ok |-> FALSE, error |-> "Unsupported repository version"]

\* The requests an open() call may issue, in order: the GET of config, the
\* listing of keys/, the GETs of the listed key files one after the other.
OpenRequests(keys) ==
  <<[op |-> "load", type |-> "config", name |-> ""],
    [op |-> "list", type |-> "keys"]>>
  \o [k \in DOMAIN keys |-> [op |-> "load", type |-> "keys", name |-> keys[k]]]

\* C14: open() issues the GET of config first, lists keys/ only once the
\* config GET has succeeded, then tries the key files; the config is
\* decoded only after a key has unlocked; open() accesses no snapshot, index
\* or data object and leaves the blob index unbuilt.
C14_OpenOrder ==
  /\ \A t \in Tasks :
       task[t].op = "open" =>
         LET reqs == task[t].reqs
         IN /\ Len(reqs) >= 1
            /\ Len(reqs) <= 2 + Len(keyListing)
            /\ reqs = SubSeq(OpenRequests(keyListing), 1, Len(reqs))
            /\ Len(reqs) >= 2 => task[t].configData # <<>>
            /\ task[t].configJson # <<>> => task[t].masterKey # Null
            /\ \A k \in DOMAIN reqs : reqs[k].type \in {"config", "keys"}
  /\ config # <<>> => masterKey # Null
  /\ blobIndex = <<>> /\ ~indexLoaded

\* C14 witness: the config GET failed and open() failed with it, keys/ not
\* having been listed.
C14_Witness ==
  \E t \in Tasks :
    /\ Done(t, "open")
    /\ task[t].reqs = <<[op |-> "load", type |-> "config", name |-> ""]>>
    /\ Result(t) = [ok |-> FALSE] @@ TransportError
    /\ keyListing # <<>>

\* The key loop of the call ended with no key file unlocked.
NoKeyUnlocked(t) ==
  /\ Done(t, "open")
  /\ task[t].keyFiles # <<>>
  /\ task[t].masterKey = Null

\* C15: when keys/ is non-empty and no key file unlocks, open() fails with
\* the bad-password (authentication) error, not with an error of another
\* kind produced by some key file.
C15_BadPasswordError ==
  \A t \in Tasks :
    NoKeyUnlocked(t) =>
      Result(t) = [ok |-> FALSE, error |-> "MAC verification failed"]

\* C16: when the listing of keys/ returns no object, open() fails with the
\* no-keys error (a transport failure apart), requests no key file and
\* leaves the facade not open.
C16_NoKeys ==
  \A t \in Tasks :
    (Done(t, "open") /\ keyListing = <<>>) =>
      /\ ~Result(t).ok
      /\ Result(t).error \in {"No key files found in repository", "Transport"}
      /\ fails = 0 => Result(t).error = "No key files found in repository"
      /\ \A k \in DOMAIN task[t].reqs :
           task[t].reqs[k].type = "keys" => task[t].reqs[k].op = "list"
      /\ task[t].masterKey = Null
      /\ ~isOpen /\ masterKey = Null /\ config = <<>>

C16_Witness ==
  /\ keyListing = <<>>
  /\ Done("t1", "open")
  /\ Result("t1") = [ok |-> FALSE, error |-> "No key files found in repository"]
  /\ Len(task["t1"].reqs) = 2
  /\ ~isOpen

\* The ranged GETs a call has issued.
Fetches(t) ==
  Cardinality({k \in DOMAIN task[t].reqs : task[t].reqs[k].op = "loadPartial"})

\* The blobs the call had loaded before its current lookup.
LoadedBefore(t) ==
  IF task[t].op = "downloadFile" THEN Len(task[t].chunks) ELSE task[t].trees - 1

\* The call failed in the lookup of a blob with the given error.
LookupFailed(t, error) ==
  /\ task[t].pc = "done" /\ task[t].seen # <<>>
  /\ ~Result(t).ok /\ Result(t).error = error

\* C17: a blob lookup fails with BlobNotFound exactly when the ID has no
\* entry in the blob index and with BlobTypeMismatch when the entry's type
\* differs from the expected type, and in both cases no ranged GET is issued
\* for the blob; a ranged GET is issued only for an entry of the expected
\* type.
C17_LookupErrors ==
  \A t \in Tasks :
    LET idHex == idToHex(task[t].id)
    IN /\ LookupFailed(t, "Blob not found") =>
            /\ idHex \notin DOMAIN task[t].seen[1]
            /\ Result(t).id = idHex
            /\ Fetches(t) = LoadedBefore(t)
       /\ LookupFailed(t, "Blob type mismatch") =>
            /\ idHex \in DOMAIN task[t].seen[1]
            /\ task[t].seen[1][idHex].type # task[t].type
            /\ Fetches(t) = LoadedBefore(t)
       /\ task[t].pc = "loadPartial" =>
            /\ idHex \in DOMAIN task[t].seen[1]
            /\ task[t].seen[1][idHex].type = task[t].type
            /\ Fetches(t) = LoadedBefore(t) + 1

\* C17 witness: reading a file whose second content blob is a tree blob
\* failed with BlobTypeMismatch after the one ranged GET of the first blob.
C17_Witness ==
  \E t \in Tasks :
    /\ Done(t, "downloadFile")
    /\ ContentOf(task[t].node[1]) = <<"d1", "ta">>
    /\ Result(t) = [ok |-> FALSE, error |-> "Blob type mismatch", id |-> "ta"]
    /\ Fetches(t) = 1

\* C18: reading a file node that carries a size does not complete
\* successfully with a number of bytes other than that size.
C18_SizeMismatch ==
  \A t \in Tasks :
    (Done(t, "downloadFile") /\ Result(t).ok) =>
      LET node == task[t].node[1]
      IN "size" \in DOMAIN node => Len(Result(t).data) = node.size

\* The key with the configured prefix taken off (<<>> when the key is not
\* under the prefix).
UnderPrefix(prefix, key) ==
  IF prefix = <<>> THEN key
  ELSE IF key # <<>> /\ key[1] = prefix THEN Tail(key) ELSE <<>>

\* The keys the engine may read: config, keys/<id>, snapshots/<id>,
\* index/<id> and data/<XX>/<id> with XX the first two characters of the id.
ReadableKey(key) ==
  \/ key = << <<"config">> >>
  \/ /\ Len(key) = 2
     /\ key[1] \in {<<"keys">>, <<"snapshots">>, <<"index">>}
     /\ key[2] # <<>>
  \/ /\ Len(key) = 3
     /\ key[1] = <<"data">>
     /\ Len(key[2]) = 2 /\ Len(key[3]) > 2
     /\ key[2] = <<key[3][1], key[3][2]>>

\* The prefixes the engine may list.
ListablePrefix(key) ==
  key \in {<< <<"keys">> >>, << <<"snapshots">> >>, << <<"index">> >>}

\* C19: every request the engine issues is a read (a GET, with or without
\* a range, or a listing) of config, keys/<id>, snapshots/<id>, index/<id>
\* or data/<XX>/<id> under the configured prefix, never of locks/, and no
\* step changes the contents of the store.
C19_ReadOnly ==
  /\ [](\A prefix \in Prefixes, t \in Tasks :
          \A k \in DOMAIN task[t].reqs :
            LET sent == fetch(prefix, task[t].reqs[k])
                key == UnderPrefix(prefix, sent.key)
            IN /\ sent.method \in {"GET", "HEAD"}
               /\ key # <<>> /\ key[1] # <<"locks">>
               /\ IF sent.listing THEN ListablePrefix(key) ELSE ReadableKey(key)
               /\ sent.range => key[1] = <<"data">>)
  /\ [][UNCHANGED store]_vars

\* C19 witness: after open, a read of a file has issued a ranged GET of a
\* pack under data/a2/.
C19_Witness ==
  \E t \in Tasks :
    /\ isOpen
    /\ task[t].op = "downloadFile"
    /\ \E k \in DOMAIN task[t].reqs :
         fetch(<<"repo">>, task[t].reqs[k]) =
           [method |-> "GET", listing |-> FALSE, range |-> TRUE,
            key |-> << <<"repo">>, <<"data">>, <<"a", "2">>,
                       <<"a", "2", "p", "2">> >>]

\* C20: once set, the master key and the config are never changed: not by
\* a step of listSnapshots, browsePath or downloadFile (and the index build
\* and blob loads they run), and not by a further open() call.
C20_KeyAndConfigWrittenOnce ==
  [][ /\ masterKey # Null => masterKey' = masterKey
      /\ config # <<>> => config' = config
      /\ \A t \in Tasks :
           (Stepped(t) /\ task'[t].op # "open" /\ task[t].op # "open")
             => UNCHANGED <<masterKey, config>> ]_vars

\* The plaintext whose SHA-256 is the blob ID named by a hex string.
PlainOfId(hex) == Plain(idToHex(idFromHex(hex)))

\* C22: every blob loadBlob returns has the requested ID as the SHA-256 of
\* its plaintext, that is, it is the plaintext of the requested blob: each
\* chunk a file read was handed is the plaintext of the content blob asked
\* for, whatever location the index gives for it.
C22_BlobMatchesId ==
  \A t \in Tasks :
    task[t].op = "downloadFile" =>
      \A i \in DOMAIN task[t].chunks :
        task[t].chunks[i] = PlainOfId(ContentOf(task[t].node[1])[i])

\* The index files of the listing that decode, and those named in the
\* supersedes list of one of them.
DecodableIndexes == Range(indexListing) \ {"ix"}
Superseded == UNION {supersedesOf(IndexFile(n)) : n \in DecodableIndexes}

\* The call built the index and its build has completed.
BuildCompleted(t) ==
  /\ t \in Builders
  /\ task[t].pc \notin {"listIndex", "firstPass", "secondPass"}
  /\ ~(1 \in task[t].failed)

\* The last request of the call for the index object n failed in transport.
LastLoadFailed(t, n) ==
  LET ks == {k \in DOMAIN task[t].reqs :
               task[t].reqs[k] = [op |-> "load", type |-> "index", name |-> n]}
  IN \E k \in ks : k \in task[t].failed /\ \A j \in ks : j <= k

\* C26: an index file that fails to fetch, authenticate or decode does not
\* abort the build: no call ends with the error of an index object, and once
\* a build has completed the index is marked loaded and every blob entry of
\* every non-superseded index file that loaded is in the map.
C26_BadIndexSkipped ==
  \A t \in Tasks :
    /\ ( /\ task[t].pc = "done" /\ task[t].reqs # <<>>
         /\ task[t].reqs[Len(task[t].reqs)].op = "load" ) =>
         (Result(t).ok \/ Result(t).error \in {"Blob not found", "Blob type mismatch"})
    /\ BuildCompleted(t) =>
         /\ indexLoaded
         /\ \A n \in DecodableIndexes \ Superseded :
              ~LastLoadFailed(t, n) => ListedIn(n) \subseteq DOMAIN blobIndex

\* C26 witness: the corrupt index was listed first and skipped, a file was
\* read through the entries of the two others.
C26_Witness ==
  /\ indexListing = <<"ix", "ia", "ic">>
  /\ fails = 0
  /\ BuildCompleted("t1")
  /\ task["t1"].missed = {"ix"}
  /\ Done("t1", "downloadFile")
  /\ Result("t1") = [ok |-> TRUE, data |-> <<7, 8, 9, 7, 8>>]

\* The entries the index files list for a blob ID.
Listings(hex) ==
  UNION { UNION { { [id |-> idFromHex(b.id), type |-> b.type,
                     offset |-> b.offset, length |-> b.length,
                     uncompressedLength |->
                       IF "uncompressed_length" \in DOMAIN b
                       THEN <<b.uncompressed_length>> ELSE <<>>,
                     packId |-> idFromHex(pk.id)]
                    : b \in {x \in Range(pk.blobs) : x.id = hex} }
                  : pk \in Range(IndexFile(n).packs) }
          : n \in IndexNames \ {"ix"} }

\* C27: the in-memory blob index maps each blob ID to one entry, and that
\* entry is, in full, one of the (pack, offset, length, uncompressed length,
\* type) tuples an index file lists for the ID.
C27_OneEntryInFull ==
  \A hex \in DOMAIN blobIndex : blobIndex[hex] \in Listings(hex)

\* C27 witness: the blob d1, listed by three index files at three
\* locations, resolves to the location the index listed last gives.
C27_Witness ==
  /\ indexLoaded
  /\ indexListing = <<"ic", "ib", "ia">>
  /\ Cardinality(Listings("d1")) = 3
  /\ "d1" \in DOMAIN blobIndex
  /\ idToHex(blobIndex["d1"].packId) = "p1"
  /\ blobIndex["d1"].offset = 81

\* The request at position k of the call failed and was surfaced: the call
\* ended there with the transport error.
Surfaced(t, k) ==
  /\ task[t].pc = "done"
  /\ k = Len(task[t].reqs)
  /\ Result(t) = [ok |-> FALSE] @@ TransportError

\* The object requested at position k of the call is requested again later.
RequestedAgain(t, k) ==
  \E j \in DOMAIN task[t].reqs : j > k /\ task[t].reqs[j] = task[t].reqs[k]

C24_LookupAfterBuild ==
  \A t \in Tasks :
    task[t].pc = "indexReturn" =>
      /\ indexLoaded
      /\ \E b \in Tasks :
           /\ BuildCompleted(b)
           /\ \A n \in DecodableIndexes \ Superseded :
                ~LastLoadFailed(b, n) => ListedIn(n) \subseteq DOMAIN blobIndex

\* C24 witness: of two concurrent first-time calls one has read the index
\* after its build and awaits its blob while the other is in its second pass.
C24_Witness ==
  /\ ~task["t1"].loadedAtStart /\ ~task["t2"].loadedAtStart
  /\ task["t1"].pc = "loadPartial" /\ task["t1"].seen # <<>>
  /\ task["t2"].pc = "secondPass"
  /\ BuildCompleted("t1")

\* C25: a call that starts after an index build has completed neither
\* lists index/ nor fetches an index object.
C25_NoRebuild ==
  \A t \in Tasks :
    task[t].loadedAtStart =>
      \A k \in DOMAIN task[t].reqs : task[t].reqs[k].type # "index"

\* C25 witness: a call started after the build of another call and
\* completed a file read with ranged GETs alone.
C25_Witness ==
  \E t \in Tasks :
    /\ task[t].loadedAtStart
    /\ Done(t, "downloadFile") /\ Result(t).ok
    /\ Fetches(t) = 3 /\ Len(task[t].reqs) = 3

\* The key data/<XX>/<pack-id-hex> under the configured prefix.
PackKey(prefix, packId) ==
  LET hex == Spelling(idToHex(packId))
  IN (IF prefix = <<>> THEN <<>> ELSE <<prefix>>)
       \o << <<"data">>, <<hex[1], hex[2]>>, hex >>

\* C30: a lookup that finds its entry issues one ranged GET, on the key
\* data/<XX>/<pack-id-hex>, for exactly `length` bytes from `offset` of the
\* entry the index gave for the blob.
C30_RangedGet ==
  \A t \in Tasks, prefix \in Prefixes :
    task[t].pc = "loadPartial" =>
      LET hex == idToHex(task[t].id)
          e == task[t].seen[1][hex]
          q == task[t].reqs[Len(task[t].reqs)]
          sent == loadPartial(prefix, q)
      IN /\ e \in Listings(hex)
         /\ q.op = "loadPartial"
         /\ Fetches(t) = LoadedBefore(t) + 1
         /\ sent.key = PackKey(prefix, e.packId)
         /\ sent.range[1] = e.offset
         /\ sent.range[2] - sent.range[1] + 1 = e.length

\* C30 witness: the blob d1 was found at offset 81 of pack p1 and bytes
\* 81..114 of data/01/01p1 are asked for.
C30_Witness ==
  \E t \in Tasks :
    /\ task[t].pc = "loadPartial"
    /\ idToHex(task[t].id) = "d1"
    /\ loadPartial(<<"repo">>, task[t].reqs[Len(task[t].reqs)])
         = [key |-> << <<"repo">>, <<"data">>, <<"0", "1">>,
                       <<"0", "1", "p", "1">> >>,
            range |-> <<81, 114>>]

\* The first k requests of the key loop are the GETs of the first k key
\* files of the listing, in listing order, and nothing was requested since.
TriedInOrder(t, k) ==
  /\ Len(task[t].reqs) = 2 + k
  /\ \A j \in 1..k :
       task[t].reqs[2 + j] =
         [op |-> "load", type |-> "keys", name |-> task[t].keyFiles[j]]

\* Key file j of the call failed: its GET failed or the password does not
\* unlock it.
KeyFailed(t, j) ==
  (2 + j) \in task[t].failed \/ ~Unlocks(task[t].keyFiles[j], task[t].password)

\* C28: open() tries the key files in listing order, continues past a key
\* file that fails and stops at the first that unlocks: the master key it
\* caches is that of the first key file of the listing that did not fail,
\* no key file after it is requested, and open fails in the key loop only
\* after every listed key file failed.
C28_FirstKeyWins ==
  \A t \in Tasks :
    (task[t].op = "open" /\ task[t].keyFiles # <<>>) =>
      LET k == task[t].k
      IN /\ task[t].keyFiles = keyListing
         /\ TriedInOrder(t, k)
         /\ \A j \in 1..(k - 1) : KeyFailed(t, j)
         /\ task[t].masterKey # Null =>
              /\ ~KeyFailed(t, k)
              /\ task[t].masterKey = KeyFile(task[t].keyFiles[k]).master
         /\ (task[t].masterKey = Null /\ task[t].pc = "done") =>
              (k = Len(task[t].keyFiles) /\ KeyFailed(t, k))

\* C28 witness: of two key files that the password unlocks, one call
\* stopped at the first without requesting the second, the other, whose GET
\* of the first failed, went on and holds the master key of the second.
C28_Witness ==
  /\ keyListing = <<"kf", "k1">>
  /\ task["t1"].pc = "done" /\ task["t1"].password = "pw1"
  /\ task["t1"].masterKey = "mk2" /\ Len(task["t1"].reqs) = 3
  /\ task["t2"].pc = "done" /\ task["t2"].password = "pw1"
  /\ task["t2"].failed = {3}
  /\ task["t2"].masterKey = "mk" /\ Len(task["t2"].reqs) = 4

\* C29: the decoding of an unpacked file follows the format version of the
\* repository, for the config read during open too: a config plaintext
\* that starts with 0x7B or 0x5B is decoded as-is, one that starts with
\* 0x02 as the zstd decompression of the remaining bytes.
C29_DecodeFollowsVersion ==
  \A t \in Tasks :
    task[t].configJson # <<>> =>
      LET data == configObject.plaintext
          decoded == task[t].configJson[1]
      IN /\ (Len(data) > 0 /\ data[1] \in {91, 123}) =>
              decoded = [ok |-> TRUE, data |-> data]
         /\ (Len(data) > 0 /\ data[1] = 2) =>
              (decoded.ok /\ decoded.data = decompress(Tail(data)).data)

\* The tag that authenticates the ciphertext part of c under nonce = the
\* first 16 bytes of c.
TagOf(c) ==
  poly1305Mac(SubSeq(c, 17, Len(c) - 16), SubSeq(c, 1, 16),
              CryptoKey.macKeyK, CryptoKey.macKeyR)

Authentic(c) == Len(c) >= 32 /\ SubSeq(c, Len(c) - 15, Len(c)) = TagOf(c)

\* C23: decrypt() returns a plaintext only for an input of at least 32
\* bytes whose last 16 bytes are the Poly1305-AES tag of its ciphertext
\* part under nonce = its first 16 bytes; for a shorter input or a tag
\* mismatch it fails with the authentication error; AES-CTR is run only
\* after the tag has verified.
C23_DecryptAuthenticates ==
  \A t \in Tasks :
    task[t].op = "decrypt" =>
      LET c == task[t].ciphertext
      IN /\ task[t].pc = "aesCtr" => Authentic(c)
         /\ (task[t].pc = "done" /\ Result(t).ok) =>
              /\ Authentic(c)
              /\ \E iv \in IVs, data \in Plaintexts :
                   c = envelope(iv, data) /\ Result(t).data = data
         /\ (task[t].pc = "done" /\ ~Authentic(c)) =>
              Result(t) = [ok |-> FALSE, error |-> "MAC verification failed"]

\* C32: a packed blob is zstd-decompressed exactly when its index entry has
\* an uncompressed length that is set and non-zero, and the bytes returned
\* then have that length; otherwise the decrypted plaintext is returned
\* as-is.
C32_DecompressToLength ==
  \A t \in Tasks :
    ( /\ task[t].op = "downloadFile" /\ task[t].chunks # <<>>
      /\ task[t].pc = "indexReturn" \/ (task[t].pc = "done" /\ Result(t).ok) ) =>
      LET e == task[t].blob[1]
          chunk == task[t].chunks[Len(task[t].chunks)]
          stored == decryptRange(idToHex(e.packId), e.offset, e.length).data
      IN IF e.uncompressedLength # <<>> /\ e.uncompressedLength[1] > 0
         THEN /\ chunk = decompress(stored).data
              /\ Len(chunk) = e.uncompressedLength[1]
         ELSE chunk = stored

\* C36: on a facade on which no open() has unlocked a key, browsePath and
\* downloadFile of a file with content fail with 'Repository not opened'
\* in the call itself: no request is issued and no facade state changes.
C36_NotOpened ==
  [][\A t \in Tasks :
       ( /\ masterKey = Null
         /\ task[t].pc = "idle" /\ task'[t].pc # "idle"
         /\ \/ task'[t].op = "browsePath"
            \/ /\ task'[t].op = "downloadFile"
               /\ task'[t].node[1].type = "file"
               /\ ContentOf(task'[t].node[1]) # <<>> ) =>
         /\ task'[t].pc = "done"
         /\ task'[t].result = <<[ok |-> FALSE, error |-> "Repository not opened"]>>
         /\ task'[t].reqs = <<>>
         /\ UNCHANGED <<facade, store>>]_vars

\* C36 witness: a file read on the facade as constructed failed at once.
C36_Witness ==
  \E t \in Tasks :
    /\ masterKey = Null /\ ~indexLoaded /\ blobIndex = <<>>
    /\ Done(t, "downloadFile")
    /\ task[t].reqs = <<>>
    /\ Result(t) = [ok |-> FALSE, error |-> "Repository not opened"]

\* C37: once the index-loaded flag is set, no step changes the blob index.
C37_IndexFrozen ==
  [][indexLoaded => blobIndex' = blobIndex]_vars

\* The ranged GETs of the call, in the order they were issued.
RangedGets(t) ==
  SelectSeq(task[t].reqs, LAMBDA q : q.op = "loadPartial")

\* C38: downloadFile fetches its content blobs one at a time in content
\* order and is all-or-nothing: the j-th ranged GET is that of the j-th
\* content blob, it is issued when blobs 1..j-1 have been loaded, a call
\* that returns bytes has loaded every blob, and a call that fails at blob
\* i returns no bytes and has issued no request after that of blob i.
C38_AllOrNothing ==
  \A t \in Tasks :
    task[t].op = "downloadFile" =>
      LET content == ContentOf(task[t].node[1])
          gets == RangedGets(t)
          loaded == Len(task[t].chunks)
      IN /\ loaded <= Len(content)
         /\ Len(gets) \in {loaded, loaded + 1}
         /\ \A j \in DOMAIN gets :
              \E e \in Listings(idToHex(idFromHex(content[j]))) :
                /\ gets[j].name = idToHex(e.packId)
                /\ gets[j].offset = e.offset /\ gets[j].length = e.length
         /\ task[t].pc = "done" =>
              IF Result(t).ok
              THEN loaded = Len(content) /\ Len(gets) = loaded
              ELSE /\ "data" \notin DOMAIN Result(t)
                   /\ content # <<>> => loaded < Len(content)
                   /\ task[t].reqs # <<>> /\ Len(gets) = loaded + 1 =>
                        task[t].reqs[Len(task[t].reqs)] = gets[Len(gets)]

\* C38 witness: the ranged GET of the second of three content blobs failed;
\* the call failed, one blob loaded and two requested.
C38_Witness ==
  \E t \in Tasks :
    /\ Done(t, "downloadFile")
    /\ Len(ContentOf(task[t].node[1])) = 3
    /\ Len(task[t].chunks) = 1 /\ Len(RangedGets(t)) = 2
    /\ Result(t) = [ok |-> FALSE] @@ TransportError

\* C31: a ranged read that succeeds returns exactly the `length` bytes of
\* the object from `offset` on, whether the store answered 206 or answered
\* 200 with the whole object.
C31_ExactlyLength ==
  \A t \in Tasks :
    (Done(t, "loadPartial") /\ Result(t).ok) =>
      LET q == task[t].reqs[1]
      IN /\ Len(Result(t).data) = q.length
         /\ Result(t).data = SubSeq(ObjectBytes, q.offset + 1, q.offset + q.length)

\* The file names a listing of the subdirectory must return.
RECURSIVE Basenames(_)
Basenames(names) ==
  IF names = <<>> THEN <<>> ELSE <<Spelling(Head(names))>> \o Basenames(Tail(names))

\* The number of pages the store splits n keys into.
PagesOf(n, size) == IF n = 0 THEN 1 ELSE (n + size - 1) \div size

\* C33: list follows the pagination tokens until a page is not truncated:
\* every request after the first carries the continuation token of the
\* page before it, one request is made per page, and the names returned are
\* the basenames of all objects of all pages, in page order, each once.
C33_ListFollowsTokens ==
  \A t \in Tasks :
    task[t].op = "list" =>
      LET names == listingOf(task[t].type)
          size == task[t].pageSize
          reqs == task[t].reqs
      IN /\ reqs[1].token = <<>>
         /\ \A k \in 2..Len(reqs) : reqs[k].token = <<(k - 1) * size + 1>>
         /\ Len(reqs) <= PagesOf(Len(names), size)
         /\ (task[t].pc = "done" /\ Result(t).ok) =>
              /\ Len(reqs) = PagesOf(Len(names), size)
              /\ Result(t).files = Basenames(names)

\* C33 witness: four pack files listed in pages of one key took four
\* requests and all four names came back in order.
C33_Witness ==
  \E t \in Tasks :
    /\ Done(t, "list") /\ task[t].type = "data" /\ task[t].pageSize = 1
    /\ Len(task[t].reqs) = 4
    /\ Result(t).ok
    /\ Result(t).files = << <<"0", "0", "p", "0">>, <<"0", "1", "p", "1">>,
                            <<"a", "2", "p", "2">>, <<"a", "2", "p", "3">> >>

\* A browse request of the browser store is in flight.
BrowseInFlight ==
  \E t \in Tasks : Awaiting(t, "selectSnapshot") \/ Awaiting(t, "navigateTo")

\* The tree of the path in the snapshot: the root for the empty path, else
\* what the walk of its segments is to give.
TreeAt(snapshot, path) ==
  LET parts == cleanParts(path)
      root == TreeOf(snapshot.tree)
  IN IF parts = <<>> THEN [ok |-> TRUE, tree |-> root]
     ELSE Resolve(root, parts, 1, 1)

\* C34: in the browser store, under any interleaving of selectSnapshot
\* and navigateTo and of the completions of their browse requests, once no
\* browse request is in flight and no error is set, currentTree is the tree
\* of currentPath in currentSnapshot (a late result of an older request
\* does not replace it), and isLoading is true while a browse request is in
\* flight.
C34_LatestNavigationWins ==
  /\ BrowseInFlight => useBrowserStore.isLoading
  /\ (/\ ~BrowseInFlight
      /\ useBrowserStore.error = <<>>
      /\ useBrowserStore.currentSnapshot # <<>>)
       => LET at == TreeAt(useBrowserStore.currentSnapshot[1],
                           useBrowserStore.currentPath)
          IN at.ok /\ useBrowserStore.currentTree = <<at.tree>>

\* A connect is under way.
ConnectInFlight == \E t \in Tasks : Awaiting(t, "connect")

\* C35: after a disconnect the snapshot list and the current tree stay
\* empty until a new connect: a loadSnapshots, selectSnapshot or navigateTo
\* request in flight at disconnect time writes nothing into the stores when
\* it completes.
C35_DisconnectedStaysEmpty ==
  (useConnectionStore.repo = <<>> /\ ~ConnectInFlight)
    => /\ useSnapshotStore.snapshots = <<>>
       /\ useBrowserStore.currentTree = <<>>

\* The connection store is consistent: connected exactly with a repo, the
\* repo one that the password of the form opened, and not connecting when
\* no connect is under way.
ConnectionConsistent ==
  /\ useConnectionStore.isConnected <=> useConnectionStore.repo # <<>>
  /\ useConnectionStore.repo # <<>> =>
       \E k \in DOMAIN keyListing :
         /\ Unlocks(keyListing[k], useConnectionStore.form.password)
         /\ useConnectionStore.repo[1].masterKey = KeyFile(keyListing[k]).master
  /\ ~ConnectInFlight => ~useConnectionStore.isConnecting

\* A step that leaves an error in the connection store: a connect failed.
ConnectFailed == useConnectionStore'.error # <<>>

\* C39: in the connection store, under any sequence and interleaving of
\* connect and disconnect, isConnected is true exactly when repo is non-null
\* and a non-null repo is one whose open() completed successfully; a connect
\* that fails (missing field or open error) changes neither isConnected nor
\* repo, and isConnecting is false once that connect has completed.
C39_ConnectedIffRepo ==
  /\ []ConnectionConsistent
  /\ [][ConnectFailed =>
         /\ useConnectionStore'.isConnected = useConnectionStore.isConnected
         /\ useConnectionStore'.repo = useConnectionStore.repo
         /\ (\A t \in Tasks : task'[t].pc = "idle")
              => ~useConnectionStore'.isConnecting]_vars

\* A connect failed on an open error while the store was connected, and the
\* connection is still there.
C39_Witness ==
  /\ useConnectionStore.isConnected
  /\ useConnectionStore.repo # <<>>
  /\ useConnectionStore.error = <<TransportError>>
  /\ ~useConnectionStore.isConnecting
  /\ ~ConnectInFlight

\* The names of the stored configs.
StoredNames == Range(ObjectKeys(loadConfigsFromStorage.configs))

\* C40: after any sequence of saveConfigToStorage and
\* deleteConfigFromStorage calls from empty storage, the stored active name
\* is absent or the name of a stored config.
C40_ActiveIsStored ==
  LET active == loadConfigsFromStorage.active
  IN active = <<>> \/ active[1] \in StoredNames

====
